---------------------------- MODULE Spec2Model ----------------------------
(***************************************************************************)
(* table-quantities: the quantity-directive expansion engine               *)
(* (parseQuantityResult, processResult, processResults), the two ledgers   *)
(* (resultQuantities, pendingQuantities), the intercepted draw             *)
(* (wrappedDraw) and the preCreateItem drain hook, as one state machine.   *)
(*                                                                         *)
(* JavaScript is single-threaded and cooperative: an async call chain runs  *)
(* until its next await.  A task of the model is one such chain; one action *)
(* is one run of a chain from the completion of the await it is suspended   *)
(* on up to the next await.  Chains interleave only at awaits.              *)
(***************************************************************************)
EXTENDS Integers, Sequences, FiniteSets, TLC

(***************************************************************************)
(* Bounds of the model.                                                    *)
(***************************************************************************)
\* top-level calls (draws and api.processResults calls) per behaviour, each
\* its own async call chain; they may all be in flight together
NumTasks == 2
\* nested intercepted draws one chain may hold on its call stack
MaxNest == 12
\* the same for draws of Table.echo, whose directive rolls 0 or 1
MaxEcho == 2
\* quantities the preCreateItem hook applies per behaviour
MaxItems == 2
\* faces of the dice behind the "1d4" formula that the model lets come up
DieCap == 2
\* runs of the version scripts per behaviour
MaxRuns == 2

(***************************************************************************)
(* Program constants.                                                      *)
(***************************************************************************)
MAX_RECURSION_DEPTH == 10

quantityPath == "system.quantity"

Tasks == 1..NumTasks

Null == "null"

(***************************************************************************)
(* Descriptions.  A description is the string cut into the pieces the two  *)
(* regular expressions can tell apart:                                     *)
(*   roll  [[/r <a>]]        ref  @UUID[<a>]{<b>}                           *)
(*   ws    white space       txt  any other text                           *)
(* NullDescription is a missing (null or undefined) description.           *)
(***************************************************************************)
RollTok(f) == [k |-> "roll", a |-> f, b |-> ""]
RefTok(u, n) == [k |-> "ref", a |-> u, b |-> n]
WsTok == [k |-> "ws", a |-> "", b |-> ""]
TxtTok == [k |-> "txt", a |-> "", b |-> ""]
NullDescription == <<[k |-> "null", a |-> "", b |-> ""]>>

\* matches of ROLL_PATTERN in d: the positions of its roll markers
RollMatches(d) == {i \in 1..Len(d) : d[i].k = "roll"}

\* end position j of a TEXT_PATTERN match starting at roll marker i:
\* the marker, then white space only, then a reference
TextMatchEnd(d, i) ==
    {j \in (i+1)..Len(d) : /\ d[j].k = "ref"
                           /\ \A m \in (i+1)..(j-1) : d[m].k = "ws"}

TextMatches(d) == {i \in RollMatches(d) : TextMatchEnd(d, i) # {}}

Min(S) == CHOOSE x \in S : \A y \in S : x <= y

NullParsed == [formula |-> Null, uuid |-> Null, name |-> Null]

Max(S) == CHOOSE x \in S : \A y \in S : x >= y

\* a bug: the last roll marker instead of the first
ROLL_PATTERN_last(d) ==
    IF RollMatches(d) = {} THEN NullParsed
    ELSE [formula |-> d[Max(RollMatches(d))].a, uuid |-> Null, name |-> Null]

\* String.prototype.match without the g flag: the leftmost match
ROLL_PATTERN(d) ==
    IF RollMatches(d) = {} THEN NullParsed
    ELSE [formula |-> d[Min(RollMatches(d))].a, uuid |-> Null, name |-> Null]

TEXT_PATTERN(d) ==
    IF TextMatches(d) = {} THEN NullParsed
    ELSE LET i == Min(TextMatches(d))
             j == Min(TextMatchEnd(d, i))
         IN [formula |-> d[i].a, uuid |-> d[j].a, name |-> d[j].b]

\* a bug: the text pattern tried whatever the type
parseAnyType(result) ==
    LET description == IF result.description = NullDescription
                       THEN <<>> ELSE result.description
    IN IF /\ result.type = "document"
          /\ result.documentUuid # Null
          /\ ROLL_PATTERN(description) # NullParsed
       THEN [formula |-> ROLL_PATTERN(description).formula,
             uuid |-> result.documentUuid, name |-> result.name]
       ELSE TEXT_PATTERN(description)

parseQuantityResult(result) ==
    LET description == IF result.description = NullDescription
                       THEN <<>> ELSE result.description
    IN IF /\ result.type = "document"
          /\ result.documentUuid # Null
          /\ ROLL_PATTERN(description) # NullParsed
       THEN [formula |-> ROLL_PATTERN(description).formula,
             uuid |-> result.documentUuid, name |-> result.name]
       ELSE IF result.type = "text" /\ TEXT_PATTERN(description) # NullParsed
       THEN TEXT_PATTERN(description)
       ELSE NullParsed

(***************************************************************************)
(* The host: dice, documents and tables.                                   *)
(***************************************************************************)
\* formula.trim()
Trim(formula) ==
    CASE formula = "1d4 " -> "1d4"
      [] formula = "1 "   -> "1"
      [] OTHER            -> formula

\* the totals a Roll of the trimmed formula can come to
RollTotals(f) ==
    CASE f = "1d4"   -> 1..DieCap
      [] f = "1"     -> {1}
      [] f = "2"     -> {2}
      [] f = "1d2-1" -> {0, 1}
      [] f = "1d2-2" -> {-1, 0}
      [] OTHER       -> {}

\* formulas the dice service rejects: new Roll(...) / roll.evaluate() throws
RollThrows(f) == f = "1d"

evaluateFormula(formula) == RollTotals(Trim(formula))

Rejected == "rejected"

\* a bug: whatever resolves is taken for an Item
fromUuidAsItem(uuid) ==
    CASE uuid \in {"Item.abc", "Item.def", "Actor.npc"} -> "Item"
      [] uuid \in {"Table.xyz", "Table.loop", "Table.echo", "Table.flaky",
                   "Table.pair"}               -> "RollTable"
      [] uuid = "Compendium.gone"              -> Rejected
      [] OTHER                                 -> Null

\* fromUuid: the class of the document a uuid resolves to, Null when none,
\* Rejected when the resolver throws
fromUuid(uuid) ==
    CASE uuid \in {"Item.abc", "Item.def"}     -> "Item"
      [] uuid \in {"Table.xyz", "Table.loop", "Table.echo", "Table.flaky",
                   "Table.pair"}               -> "RollTable"
      [] uuid = "Actor.npc"                    -> "Actor"
      [] uuid = "Compendium.gone"              -> Rejected
      [] OTHER                                 -> Null

TextResult(d) ==
    [type |-> "text", documentUuid |-> Null, name |-> "", description |-> d]
DocResult(u, n, d) ==
    [type |-> "document", documentUuid |-> u, name |-> n, description |-> d]

\* the TableResult documents of the world, as loaded
WorldResults ==
    [rTorch |-> TextResult(<<RollTok("1d4"), RefTok("Item.abc", "Torch")>>),
     rAbc   |-> DocResult("Item.abc", "Torch", <<RollTok("1d4 ")>>),
     rDef   |-> DocResult("Item.def", "Gem", <<RollTok("1")>>),
     rXyz   |-> DocResult("Table.xyz", "Gems", <<RollTok("2")>>),
     rLoop  |-> DocResult("Table.loop", "Loop", <<RollTok("1")>>),
     rEcho  |-> DocResult("Table.echo", "Echo", <<RollTok("1d2-1")>>),
     rPlain |-> TextResult(<<TxtTok>>),
     rNote  |-> TextResult(<<RollTok("1d4"), TxtTok,
                             RefTok("Item.abc", "Torch")>>),
     rZero  |-> DocResult("Item.abc", "Torch", <<RollTok("1d2-2")>>),
     rGone  |-> TextResult(<<RollTok("1"), WsTok, RefTok("Item.gone", "Lost")>>),
     rActor |-> DocResult("Actor.npc", "Guard", <<RollTok("1 ")>>),
     rBad   |-> DocResult("Item.abc", "Torch", <<RollTok("1d")>>),
     rHex   |-> TextResult(<<RollTok("1"), RefTok("Compendium.gone", "Hex")>>),
     rFlaky |-> DocResult("Table.flaky", "Flaky", <<RollTok("1")>>),
     rOne   |-> DocResult("Table.xyz", "Gems", <<RollTok("1")>>),
     rGem   |-> DocResult("Item.def", "Gem", <<RollTok("2")>>),
     rPair  |-> DocResult("Table.pair", "Pair", <<RollTok("1")>>),
     rBoth  |-> DocResult("Item.def", "Gem",
                          <<RollTok("1"), RefTok("Item.abc", "Torch")>>),
     rLoose |-> DocResult(Null, "",
                          <<RollTok("1"), RefTok("Item.abc", "Torch")>>),
     rRoll  |-> TextResult(<<RollTok("1")>>),
     rBare  |-> DocResult("Item.abc", "Torch", <<TxtTok>>),
     rNull  |-> TextResult(NullDescription),
     rVoid  |-> DocResult("Item.abc", "Torch", NullDescription),
     rTwo   |-> DocResult("Item.abc", "Torch",
                          <<RollTok("2"), TxtTok, RollTok("1")>>)]

ResultIds == DOMAIN WorldResults

\* the result lists the host's own draw of a table can return
TableDraws(table) ==
    CASE table = "Table.xyz"  -> {<<"rDef">>}
      [] table = "Table.loop" -> {<<"rLoop">>}
      [] table = "Table.echo" -> {<<"rEcho">>}
      [] table = "Table.loot" -> {<<"rTorch">>, <<"rPlain", "rXyz">>,
                                  <<"rTorch", "rBad">>}
      [] table = "Table.flaky" -> {<<"rDef">>}
      [] table = "Table.pair" -> {<<"rDef", "rGem">>}
      [] OTHER                -> {}

\* the tables whose own draw may throw
DrawThrows(table) == table = "Table.flaky"

\* the tables a caller draws from, and the calls of api.processResults
DrawTables == {"Table.loot", "Table.xyz", "Table.loop", "Table.echo",
               "Table.flaky", "Table.pair"}

Batches ==
    {<<r>> : r \in ResultIds}
        \cup {<<"rPlain", "rTorch", "rPlain">>, <<"rTorch", "rZero">>,
              <<"rPlain", "rPlain">>, <<"rGone", "rDef">>,
              <<"rPlain", "rNote">>, <<"rNote", "rXyz", "rPlain">>,
              <<"rOne", "rGem">>, <<"rZero", "rDef">>, <<"rActor", "rDef">>,
              <<"rXyz", "rDef">>, <<"rTorch", "rBad">>,
              <<"rRoll", "rLoose", "rBare", "rNull", "rVoid">>}

Depths == {0, MAX_RECURSION_DEPTH - 1, MAX_RECURSION_DEPTH}

\* the originating references (flags.core.sourceId) of created items
SourceIds == {Null, "Item.abc", "Item.def"}

VARIABLES
    results,            \* the fields of every TableResult document
    resultQuantities,   \* the WeakMap: TableResult -> quantity data
    pendingQuantities,  \* the Map: documentUuid -> queue of quantities
    modifyChat,         \* the modifyChat setting
    stack,              \* per task: the frames of its async call chain
    ret,                \* per task: what the call that just ended hands back
    op,                 \* per task: the top-level call it is running
    rolled,             \* per task: the last total evaluateFormula returned
    enq,                \* per task: what its call has queued so far
    created,            \* the creation data the preCreateItem hook wrote
    chat,               \* the quantity chat messages created
    caught,             \* per task: the errors its wrappedDraw frames caught
    notified,           \* the result lists handed to resultsReady observers
    files,              \* the version files of the repository
    runs                \* the runs of the version scripts, in order

vars == <<results, resultQuantities, pendingQuantities, modifyChat, stack,
          ret, op, rolled, enq, created, chat, caught, notified, files, runs>>

ledger == <<results, resultQuantities, pendingQuantities>>

scripts == <<files, runs>>

(***************************************************************************)
(* Frames of a call chain.  Every frame carries every field; a function    *)
(* uses its own.                                                           *)
(*   wrappedDraw:    table, displayChat (options), passed (the options    *)
(*                   handed to wrapped), calls (of wrapped), drawn,        *)
(*                   results (drawResult.results)                          *)
(*   processResults: results, idx, acc (processed), segs, depth            *)
(*   processResult:  result, parsed, depth, quantity, idx (i),             *)
(*                   acc (subResults)                                      *)
(* segs records, per input Result already handled by processResults, how   *)
(* many Results it put into processed and whether it had a directive.      *)
(***************************************************************************)
BaseFrame ==
    [fn |-> "", pc |-> "", table |-> Null, displayChat |-> FALSE,
     drawn |-> FALSE, results |-> <<>>, idx |-> 0, acc |-> <<>>,
     segs |-> <<>>, depth |-> 0, result |-> Null, parsed |-> NullParsed,
     quantity |-> 0, passed |-> FALSE, calls |-> 0]

NoRet == [kind |-> "none", val |-> <<>>]
Thrown == [kind |-> "throw", val |-> <<>>]
Value(v) == [kind |-> "value", val |-> v]

\* Map and WeakMap
EmptyMap == [k \in {} |-> <<>>]
MapSet(m, k, v) == [x \in DOMAIN m \cup {k} |-> IF x = k THEN v ELSE m[x]]
\* a bug: the key kept, with nothing queued
KeepEmptyKey(m, k) == [x \in DOMAIN m |-> IF x = k THEN <<>> ELSE m[x]]

\* Map.prototype.delete
MapDelete(m, k) == [x \in DOMAIN m \ {k} |-> m[x]]

\* a bug: the directive-less Result put in front of what is processed
unshift(processed, result) == <<result>> \o processed

\* processed.push(result)
push(processed, result) == Append(processed, result)

IdleOp == [kind |-> "idle", table |-> Null, displayChat |-> FALSE,
           batch |-> <<>>, depth |-> 0]

Top(stk) == stk[Len(stk)]
Pop(stk) == SubSeq(stk, 1, Len(stk) - 1)
SetTop(stk, f) == [stk EXCEPT ![Len(stk)] = f]

\* intercepted draws in flight on a call chain
Nest(stk) == Cardinality({i \in 1..Len(stk) : stk[i].fn = "wrappedDraw"})

NestOf(stk, table) ==
    Cardinality({i \in 1..Len(stk) : /\ stk[i].fn = "wrappedDraw"
                                     /\ stk[i].table = table})

DrawFrame(table, displayChat) ==
    [BaseFrame EXCEPT !.fn = "wrappedDraw", !.pc = "awaitWrapped",
                      !.table = table, !.displayChat = displayChat,
                      !.passed = displayChat, !.calls = 1]

ResultFrame(result, parsed, depth) ==
    [BaseFrame EXCEPT !.fn = "processResult", !.pc = "awaitEvaluate",
                      !.result = result, !.parsed = parsed, !.depth = depth]

\* the for loop of processResults, run over the Results without a directive
RECURSIVE Scan(_)
Scan(f) ==
    IF f.idx > Len(f.results) THEN f
    ELSE IF parseQuantityResult(results[f.results[f.idx]]) # NullParsed THEN f
    ELSE Scan([f EXCEPT !.acc = push(@, f.results[f.idx]),
                        !.segs = Append(@, [n |-> 1, parsed |-> FALSE]),
                        !.idx = @ + 1])

\* processResults from loop position f.idx on, up to its first await or its
\* return: the chain's stack and what is handed back
RunLoop(stk, f0) ==
    LET f == Scan(f0)
    IN IF f.idx > Len(f.results)
       THEN [stack |-> stk, ret |-> Value(f.acc)]
       ELSE [stack |-> stk \o <<f, ResultFrame(f.results[f.idx],
                          parseQuantityResult(results[f.results[f.idx]]),
                          f.depth)>>,
             ret |-> NoRet]

processResults(stk, rs, depth) ==
    RunLoop(stk, [BaseFrame EXCEPT !.fn = "processResults",
                                   !.pc = "awaitProcessResult",
                                   !.results = rs, !.idx = 1,
                                   !.depth = depth])

TypeOK ==
    /\ DOMAIN results = ResultIds
    /\ DOMAIN resultQuantities \subseteq ResultIds
    /\ modifyChat \in BOOLEAN
    /\ \A t \in Tasks : ret[t].kind \in {"none", "value", "throw"}

\* the module as loaded: nothing recorded, nothing queued, no call running
Loaded ==
    /\ results = WorldResults
    /\ resultQuantities = EmptyMap
    /\ pendingQuantities = EmptyMap
    /\ modifyChat \in BOOLEAN
    /\ stack = [t \in Tasks |-> <<>>]
    /\ ret = [t \in Tasks |-> NoRet]
    /\ op = [t \in Tasks |-> IdleOp]
    /\ rolled = [t \in Tasks |-> 0]
    /\ enq = [t \in Tasks |-> <<>>]
    /\ created = <<>>
    /\ chat = {}
    /\ caught = [t \in Tasks |-> <<>>]
    /\ notified = {}

(***************************************************************************)
(* Top-level calls.                                                        *)
(***************************************************************************)
Idle(t) == op[t].kind = "idle"

\* The model lets the short calls (no self-referential table, depth 0) follow
\* and overlap each other and item creations; any other call is the only
\* call of its behaviour and starts it.  Task t makes the t-th call.
FlatBatches == {<<"rTorch">>, <<"rAbc">>}

Flat(o) ==
    \/ o.kind = "idle"
    \/ o.kind = "expand" /\ o.depth = 0 /\ o.batch \in FlatBatches
    \/ o.kind = "draw" /\ o.table = "Table.xyz" /\ o.displayChat

MayStart(t, o) ==
    /\ Idle(t)
    /\ \A u \in Tasks : u < t => ~Idle(u)
    /\ \A u \in Tasks : Flat(op[u])
    /\ Flat(o) \/ (t = 1 /\ created = <<>>)

\* a caller draws from a table: wrappedDraw runs up to `await wrapped(options)`
StartDraw(t, table, displayChat) ==
    /\ MayStart(t, [IdleOp EXCEPT !.kind = "draw", !.table = table,
                                  !.displayChat = displayChat])
    /\ op' = [op EXCEPT ![t] = [IdleOp EXCEPT !.kind = "draw",
                                              !.table = table,
                                              !.displayChat = displayChat]]
    /\ stack' = [stack EXCEPT ![t] = <<DrawFrame(table, displayChat)>>]
    /\ ret' = [ret EXCEPT ![t] = NoRet]
    /\ rolled' = [rolled EXCEPT ![t] = 0]
    /\ enq' = [enq EXCEPT ![t] = <<>>]
    /\ UNCHANGED <<ledger, modifyChat, caught, created, chat, notified>>
    /\ UNCHANGED scripts

\* another module calls api.processResults(batch, depth)
StartExpand(t, batch, depth) ==
    /\ MayStart(t, [IdleOp EXCEPT !.kind = "expand", !.batch = batch,
                                  !.depth = depth])
    /\ op' = [op EXCEPT ![t] = [IdleOp EXCEPT !.kind = "expand",
                                              !.batch = batch,
                                              !.depth = depth]]
    /\ LET c == processResults(<<>>, batch, depth)
       IN /\ stack' = [stack EXCEPT ![t] = c.stack]
          /\ ret' = [ret EXCEPT ![t] = c.ret]
    /\ rolled' = [rolled EXCEPT ![t] = 0]
    /\ enq' = [enq EXCEPT ![t] = <<>>]
    /\ UNCHANGED <<ledger, modifyChat, caught, created, chat, notified>>
    /\ UNCHANGED scripts

\* the top-level call has resolved
Done(t) == ~Idle(t) /\ stack[t] = <<>> /\ ret[t].kind # "none"

(***************************************************************************)
(* processResult                                                           *)
(***************************************************************************)
At(t, fn, pc) ==
    /\ stack[t] # <<>>
    /\ Top(stack[t]).fn = fn
    /\ Top(stack[t]).pc = pc

\* `return v` of the top frame
Return(t, v) ==
    /\ stack' = [stack EXCEPT ![t] = Pop(@)]
    /\ ret' = [ret EXCEPT ![t] = Value(v)]

\* the wrappedDraw frames of stk whose try block is running
TryFrames(stk) ==
    {i \in 1..Len(stk) : stk[i].fn = "wrappedDraw" /\ stk[i].pc # "awaitRetry"}

\* a bug: the original draw re-run whatever it had produced
CatchAndRedraw(below, g) ==
    [stack |-> Append(below, [g EXCEPT !.pc = "awaitRetry", !.calls = @ + 1]),
     ret |-> NoRet]

\* catch (err) of wrappedDraw, frame g above the frames below:
\* `if (!drawResult) drawResult = await wrapped(options)`, `return drawResult`
Catch(below, g) ==
    IF g.drawn
    THEN [stack |-> below, ret |-> Value(g.results)]
    ELSE [stack |-> Append(below, [g EXCEPT !.pc = "awaitRetry",
                                            !.calls = @ + 1]),
          ret |-> NoRet]

\* an exception thrown by the top frame of stk: it leaves the frames without
\* a try block and is caught by the innermost wrappedDraw that is in its
\* try block, or rejects the top-level call
Unwind(stk) ==
    IF TryFrames(stk) = {}
    THEN [stack |-> <<>>, ret |-> Thrown, caught |-> <<>>]
    ELSE LET i == Max(TryFrames(stk))
             c == Catch(SubSeq(stk, 1, i - 1), stk[i])
         IN [stack |-> c.stack, ret |-> c.ret,
             caught |-> <<[table |-> stk[i].table, pc |-> stk[i].pc,
                           level |-> i]>>]

Throw(t) ==
    /\ stack' = [stack EXCEPT ![t] = Unwind(stack[t]).stack]
    /\ ret' = [ret EXCEPT ![t] = Unwind(stack[t]).ret]
    /\ caught' = [caught EXCEPT ![t] = @ \o Unwind(stack[t]).caught]

\* a bug: a zero roll taken for a quantity
OnlyNegative(quantity) == quantity < 0

\* quantity <= 0
NonPositive(quantity) == quantity <= 0

\* evaluateFormula resolves with the roll's total
EvaluateReturns(t) ==
    /\ At(t, "processResult", "awaitEvaluate")
    /\ LET f == Top(stack[t])
       IN \E quantity \in evaluateFormula(f.parsed.formula) :
            /\ rolled' = [rolled EXCEPT ![t] = quantity]
            /\ IF NonPositive(quantity)
               THEN Return(t, <<f.result>>)
               ELSE /\ stack' = [stack EXCEPT ![t] =
                          SetTop(@, [f EXCEPT !.quantity = quantity,
                                              !.pc = "awaitFromUuid"])]
                    /\ UNCHANGED ret
    /\ UNCHANGED <<ledger, modifyChat, caught, op, enq, created, chat, notified>>
    /\ UNCHANGED scripts

\* new Roll(formula.trim()) or roll.evaluate() throws
EvaluateThrows(t) ==
    /\ At(t, "processResult", "awaitEvaluate")
    /\ RollThrows(Trim(Top(stack[t]).parsed.formula))
    /\ Throw(t)
    /\ UNCHANGED <<ledger, modifyChat, op, rolled, enq, created, chat,
                   notified>>
    /\ UNCHANGED scripts

\* a bug: the promotion stores the formula in a field of the Result
updateSourceWithFlag(result, parsed) ==
    [type |-> "document", documentUuid |-> parsed.uuid, name |-> parsed.name,
     description |-> <<>>, flags |-> parsed.formula]

\* a bug: the promotion leaves the description as it was
updateSourceKeepingText(result, parsed) ==
    [result EXCEPT !.type = "document", !.documentUuid = parsed.uuid,
                   !.name = parsed.name]

\* result.updateSource({type: "document", documentUuid, name, description: ""})
updateSource(result, parsed) ==
    [result EXCEPT !.type = "document", !.documentUuid = parsed.uuid,
                   !.name = parsed.name, !.description = <<>>]

\* a bug: every record is flagged as expanded
QuantityRecordFlagged(quantity, parsed, expanded) ==
    [quantity |-> quantity, documentUuid |-> parsed.uuid,
     name |-> parsed.name, expandedToSubResults |-> TRUE]

QuantityRecord(quantity, parsed, expanded) ==
    [quantity |-> quantity, documentUuid |-> parsed.uuid,
     name |-> parsed.name, expandedToSubResults |-> expanded]

\* a bug: unshift instead of push
EnqueueAtFront(pending, uuid, quantity) ==
    MapSet(pending, uuid,
           <<quantity>> \o (IF uuid \in DOMAIN pending THEN pending[uuid]
                            ELSE <<>>))

\* a bug: one pending total per target instead of one entry per annotation
EnqueueMerging(pending, uuid, quantity) ==
    MapSet(pending, uuid,
           <<quantity + (IF uuid \in DOMAIN pending THEN pending[uuid][1]
                         ELSE 0)>>)

\* a bug: the key is set anew at every enqueue
EnqueueAfresh(pending, uuid, quantity) ==
    MapSet(pending, uuid, <<quantity>>)

\* pendingQuantities.get(uuid).push(quantity), the key created when absent
Enqueue(pending, uuid, quantity) ==
    MapSet(pending, uuid,
           Append(IF uuid \in DOMAIN pending THEN pending[uuid] ELSE <<>>,
                  quantity))

\* doc instanceof Item: promote a text result, record and queue the quantity
LeafBranch(t, f) ==
    /\ results' = IF results[f.result].type = "text"
                  THEN [results EXCEPT ![f.result] = updateSource(@, f.parsed)]
                  ELSE results
    /\ resultQuantities' = MapSet(resultQuantities, f.result,
                              QuantityRecord(f.quantity, f.parsed, FALSE))
    /\ pendingQuantities' = Enqueue(pendingQuantities, f.parsed.uuid,
                                    f.quantity)
    /\ enq' = [enq EXCEPT ![t] = Append(@, <<f.parsed.uuid, f.quantity>>)]
    /\ Return(t, <<f.result>>)

\* doc.draw({displayChat: false, recursive: true}): the installed draw
CallDraw(t, f) ==
    /\ Nest(stack[t]) < MaxNest
    /\ NestOf(stack[t], "Table.echo") < MaxEcho \/ f.parsed.uuid # "Table.echo"
    /\ stack' = [stack EXCEPT ![t] =
           Append(SetTop(@, [f EXCEPT !.pc = "awaitDraw"]),
                  DrawFrame(f.parsed.uuid, FALSE))]
    /\ ret' = [ret EXCEPT ![t] = NoRet]

\* a bug: the bound tested one level late
DepthExceeded(depth) == depth > MAX_RECURSION_DEPTH

\* depth >= MAX_RECURSION_DEPTH
DepthReached(depth) == depth >= MAX_RECURSION_DEPTH

\* fromUuid throws
FromUuidThrows(t) ==
    /\ At(t, "processResult", "awaitFromUuid")
    /\ fromUuid(Top(stack[t]).parsed.uuid) = Rejected
    /\ Throw(t)
    /\ UNCHANGED <<ledger, modifyChat, op, rolled, enq, created, chat,
                   notified>>
    /\ UNCHANGED scripts

\* fromUuid resolves
FromUuidReturns(t) ==
    /\ At(t, "processResult", "awaitFromUuid")
    /\ fromUuid(Top(stack[t]).parsed.uuid) # Rejected
    /\ LET f == Top(stack[t])
           doc == fromUuid(f.parsed.uuid)
       IN CASE doc = Null ->
                 /\ Return(t, <<f.result>>)
                 /\ UNCHANGED <<ledger, enq>>
            [] doc = "RollTable" /\ DepthReached(f.depth) ->
                 /\ Return(t, <<f.result>>)
                 /\ UNCHANGED <<ledger, enq>>
            [] doc = "RollTable" /\ ~DepthReached(f.depth) ->
                 /\ CallDraw(t, [f EXCEPT !.idx = 0, !.acc = <<>>])
                 /\ UNCHANGED <<ledger, enq>>
            [] doc = "Item" ->
                 LeafBranch(t, f)
            [] OTHER ->
                 /\ Return(t, <<f.result>>)
                 /\ UNCHANGED <<ledger, enq>>
    /\ UNCHANGED <<modifyChat, caught, op, rolled, created, chat, notified>>
    /\ UNCHANGED scripts

\* the sub-table's draw resolves: processResults(draw.results, depth + 1)
DrawReturns(t) ==
    /\ At(t, "processResult", "awaitDraw")
    /\ ret[t].kind = "value"
    /\ LET f == Top(stack[t])
           c == processResults(
                    SetTop(stack[t], [f EXCEPT !.pc = "awaitSubResults"]),
                    ret[t].val, f.depth + 1)
       IN /\ stack' = [stack EXCEPT ![t] = c.stack]
          /\ ret' = [ret EXCEPT ![t] = c.ret]
    /\ UNCHANGED <<ledger, modifyChat, caught, op, rolled, enq, created, chat,
                   notified>>
    /\ UNCHANGED scripts

\* a bug: one draw too many
MoreDrawsOffByOne(i, quantity) == i <= quantity

\* the loop test of `for (let i = 0; i < quantity; i++)`
MoreDraws(i, quantity) == i < quantity

\* the recursive processResults resolves: push, then draw again or finish
SubResultsReturn(t) ==
    /\ At(t, "processResult", "awaitSubResults")
    /\ ret[t].kind = "value"
    /\ LET f == Top(stack[t])
           g == [f EXCEPT !.acc = @ \o ret[t].val, !.idx = @ + 1]
       IN IF MoreDraws(g.idx, g.quantity)
          THEN /\ CallDraw(t, g)
               /\ UNCHANGED resultQuantities
          ELSE /\ resultQuantities' = MapSet(resultQuantities, g.result,
                       QuantityRecord(g.quantity, g.parsed, TRUE))
               /\ Return(t, g.acc)
    /\ UNCHANGED <<results, pendingQuantities, modifyChat, caught, op, rolled, enq,
                   created, chat, notified>>
    /\ UNCHANGED scripts

(***************************************************************************)
(* processResults                                                          *)
(***************************************************************************)
\* processResult resolves: processed.push(...expanded), then the loop goes on
ProcessResultReturns(t) ==
    /\ At(t, "processResults", "awaitProcessResult")
    /\ ret[t].kind = "value"
    /\ LET f == Top(stack[t])
           g == [f EXCEPT !.acc = @ \o ret[t].val,
                          !.segs = Append(@, [n |-> Len(ret[t].val),
                                              parsed |-> TRUE]),
                          !.idx = @ + 1]
           c == RunLoop(Pop(stack[t]), g)
       IN /\ stack' = [stack EXCEPT ![t] = c.stack]
          /\ ret' = [ret EXCEPT ![t] = c.ret]
    /\ UNCHANGED <<ledger, modifyChat, caught, op, rolled, enq, created, chat,
                   notified>>
    /\ UNCHANGED scripts

(***************************************************************************)
(* wrappedDraw                                                             *)
(***************************************************************************)
\* the host's own draw resolves: processResults(drawResult.results)
WrappedReturns(t) ==
    /\ At(t, "wrappedDraw", "awaitWrapped")
    /\ LET f == Top(stack[t])
       IN \E rs \in TableDraws(f.table) :
            LET c == processResults(
                         SetTop(stack[t],
                                [f EXCEPT !.drawn = TRUE, !.results = rs,
                                          !.pc = "awaitProcessResults"]),
                         rs, 0)
            IN /\ stack' = [stack EXCEPT ![t] = c.stack]
               /\ ret' = [ret EXCEPT ![t] = c.ret]
    /\ UNCHANGED <<ledger, modifyChat, caught, op, rolled, enq, created, chat,
                   notified>>
    /\ UNCHANGED scripts

\* the host's own draw throws inside the try block
WrappedThrows(t) ==
    /\ At(t, "wrappedDraw", "awaitWrapped")
    /\ DrawThrows(Top(stack[t]).table)
    /\ Throw(t)
    /\ UNCHANGED <<ledger, modifyChat, op, rolled, enq, created, chat,
                   notified>>
    /\ UNCHANGED scripts

\* the re-run of the host's own draw resolves: return drawResult
RetryReturns(t) ==
    /\ At(t, "wrappedDraw", "awaitRetry")
    /\ \E rs \in TableDraws(Top(stack[t]).table) : Return(t, rs)
    /\ UNCHANGED <<ledger, modifyChat, caught, op, rolled, enq, created, chat,
                   notified>>
    /\ UNCHANGED scripts

\* the re-run of the host's own draw throws, outside the try block
RetryThrows(t) ==
    /\ At(t, "wrappedDraw", "awaitRetry")
    /\ DrawThrows(Top(stack[t]).table)
    /\ Throw(t)
    /\ UNCHANGED <<ledger, modifyChat, op, rolled, enq, created, chat,
                   notified>>
    /\ UNCHANGED scripts

\* a bug: the entries in reverse list order
RECURSIVE quantityEntriesNewestFirst(_)
quantityEntriesNewestFirst(rs) ==
    IF rs = <<>> THEN <<>>
    ELSE quantityEntriesNewestFirst(Tail(rs))
         \o (IF Head(rs) \in DOMAIN resultQuantities
             THEN <<resultQuantities[Head(rs)]>> ELSE <<>>)

\* results.map(r => resultQuantities.get(r)).filter(Boolean)
RECURSIVE quantityEntries(_)
quantityEntries(rs) ==
    IF rs = <<>> THEN <<>>
    ELSE (IF Head(rs) \in DOMAIN resultQuantities
          THEN <<resultQuantities[Head(rs)]>> ELSE <<>>)
         \o quantityEntries(Tail(rs))

\* `<li>${q.quantity}x @UUID[${q.documentUuid}]{${q.name}}</li>`
line(q) ==
    [quantity |-> q.quantity, documentUuid |-> q.documentUuid,
     name |-> q.name]

\* quantityEntries.map(q => ...): the lines of the chat message
lines(entries) == [i \in 1..Len(entries) |-> line(entries[i])]

\* the lists a registered resultsReady observer may throw on: the observer
\* of the model expects linked Results and may fail on the text Result rPlain
ObserverThrows(rs) == \E i \in 1..Len(rs) : rs[i] = "rPlain"

\* a bug: the observers get the list drawResult held before this step
NotifyStaleAndReturn(t, rs) ==
    /\ notified' = notified \cup {Top(stack[t]).results}
    /\ Return(t, rs)
    /\ UNCHANGED caught

\* Hooks.callAll(`${MODULE_ID}.resultsReady`, ...); return drawResult.
\* When an observer throws, the catch block returns drawResult as well.
NotifyAndReturn(t, rs) ==
    /\ notified' = notified \cup {rs}
    /\ Return(t, rs)
    /\ \/ UNCHANGED caught
       \/ /\ ObserverThrows(rs)
          /\ caught' = [caught EXCEPT ![t] =
                 Append(@, [table |-> Top(stack[t]).table,
                            pc |-> "callAll", level |-> Len(stack[t])])]

\* processResults resolves: drawResult.results = ..., then the chat message
ResultsProcessed(t) ==
    /\ At(t, "wrappedDraw", "awaitProcessResults")
    /\ ret[t].kind = "value"
    /\ LET f == Top(stack[t])
           g == [f EXCEPT !.results = ret[t].val]
       IN IF f.displayChat /\ modifyChat
          THEN /\ stack' = [stack EXCEPT ![t] =
                     SetTop(@, [g EXCEPT
                         !.acc = quantityEntries(g.results),
                         !.pc = IF quantityEntries(g.results) = <<>>
                                THEN "awaitChat" ELSE "awaitEnrich"])]
               /\ ret' = [ret EXCEPT ![t] = NoRet]
               /\ UNCHANGED <<notified, caught>>
          ELSE NotifyAndReturn(t, g.results)
    /\ UNCHANGED <<ledger, modifyChat, op, rolled, enq, created, chat>>
    /\ UNCHANGED scripts

\* sendQuantityChat: TextEditor.enrichHTML resolves, ChatMessage.create
EnrichReturns(t) ==
    /\ At(t, "wrappedDraw", "awaitEnrich")
    /\ LET f == Top(stack[t])
       IN /\ chat' = chat \cup {[table |-> f.table, lines |-> lines(f.acc)]}
          /\ stack' = [stack EXCEPT ![t] =
                 SetTop(@, [f EXCEPT !.pc = "awaitChat"])]
    /\ UNCHANGED <<ledger, modifyChat, caught, ret, op, rolled, enq, created,
                   notified>>
    /\ UNCHANGED scripts

\* sendQuantityChat: TextEditor.enrichHTML throws
EnrichThrows(t) ==
    /\ At(t, "wrappedDraw", "awaitEnrich")
    /\ Throw(t)
    /\ UNCHANGED <<ledger, modifyChat, op, rolled, enq, created, chat,
                   notified>>
    /\ UNCHANGED scripts

\* sendQuantityChat resolves
ChatReturns(t) ==
    /\ At(t, "wrappedDraw", "awaitChat")
    /\ NotifyAndReturn(t, Top(stack[t]).results)
    /\ UNCHANGED <<ledger, modifyChat, op, rolled, enq, created, chat>>
    /\ UNCHANGED scripts

(***************************************************************************)
(* Hooks.on("preCreateItem"): an item with originating reference sourceId  *)
(* is being created.  created keeps what the hook wrote into creation data *)
(* (setProperty(data, quantityPath, quantity)), in order.                  *)
(***************************************************************************)
\* a bug: pop instead of shift
PopFromBack(queue) ==
    [quantity |-> queue[Len(queue)],
     queue |-> SubSeq(queue, 1, Len(queue) - 1)]

\* queue.shift(): what it returns and what it leaves
Shift(queue) == [quantity |-> Head(queue), queue |-> Tail(queue)]

\* data?.flags?.core?.sourceId ?? item.flags?.core?.sourceId
sourceIdOf(data, item) == IF data # Null THEN data ELSE item

\* a bug: an item without a pending quantity gets the quantity 1
consumeOrDefault(pending, sourceId) ==
    IF sourceId = Null
    THEN [pending |-> pending, written |-> <<>>]
    ELSE IF \/ sourceId \notin DOMAIN pending
            \/ Len(pending[sourceId]) = 0
    THEN [pending |-> pending, written |-> <<1>>]
    ELSE LET queue == Shift(pending[sourceId]).queue
         IN [pending |-> IF Len(queue) = 0
                         THEN MapDelete(pending, sourceId)
                         ELSE MapSet(pending, sourceId, queue),
             written |-> <<Shift(pending[sourceId]).quantity>>]

\* the body of the hook: the queues it leaves and the quantity it writes
\* into the creation data (none when it returns early)
consume(pending, sourceId) ==
    IF sourceId = Null
    THEN [pending |-> pending, written |-> <<>>]
    ELSE IF \/ sourceId \notin DOMAIN pending
            \/ Len(pending[sourceId]) = 0
    THEN [pending |-> pending, written |-> <<>>]
    ELSE LET queue == Shift(pending[sourceId]).queue
         IN [pending |-> IF Len(queue) = 0
                         THEN MapDelete(pending, sourceId)
                         ELSE MapSet(pending, sourceId, queue),
             written |-> <<Shift(pending[sourceId]).quantity>>]

preCreateItem(sourceId) ==
    /\ Len(created) < MaxItems
    /\ \A t \in Tasks : Flat(op[t]) \/ Done(t)
    /\ pendingQuantities' = consume(pendingQuantities, sourceId).pending
    /\ created' =
          IF consume(pendingQuantities, sourceId).written = <<>>
          THEN created
          ELSE Append(created,
                   [sourceId |-> sourceId, path |-> quantityPath,
                    quantity |->
                        consume(pendingQuantities, sourceId).written[1]])
    /\ UNCHANGED <<results, resultQuantities, modifyChat, caught, stack, ret, op,
                   rolled, enq, chat, notified>>
    /\ UNCHANGED scripts

(***************************************************************************)
(* The version scripts (scripts/sync-versions.js, scripts/bump-beta.js).   *)
(* A version string is the sequence of its tokens: runs of digits, ".",    *)
(* "-" and words; the empty sequence is the empty string.  A file is what  *)
(* the scripts read of it: the version of a JSON file, the lines of        *)
(* CHANGELOG.md.  A script runs synchronously from start to exit.          *)
(***************************************************************************)
Tok(k, a) == [k |-> k, a |-> a]
Num(d) == Tok("num", d)
Dot == Tok(".", <<>>)
Dash == Tok("-", <<>>)
Word(w) == Tok(w, <<>>)

\* X.Y.Z-beta.N and X.Y.Z, from the digits of X, Y, Z and N
Beta(x, y, z, n) ==
    <<Num(x), Dot, Num(y), Dot, Num(z), Dash, Word("beta"), Dot, Num(n)>>
Release(x, y, z) == <<Num(x), Dot, Num(y), Dot, Num(z)>>

\* parseInt(digits, 10)
RECURSIVE parseInt(_)
parseInt(d) ==
    IF d = <<>> THEN 0
    ELSE parseInt(SubSeq(d, 1, Len(d) - 1)) * 10 + d[Len(d)]

\* `${n}`: the decimal digits of n
RECURSIVE toString(_)
toString(n) ==
    IF n < 10 THEN <<n>> ELSE toString(n \div 10) \o <<n % 10>>

\* version.match(/^(\d+\.\d+\.\d+)-beta\.(\d+)$/)
betaMatch(version) ==
    /\ Len(version) = 9
    /\ [i \in 1..9 |-> version[i].k]
          = <<"num", ".", "num", ".", "num", "-", "beta", ".", "num">>

\* a bug: the beta number taken as a string, so that + 1 appends a digit
incrementBetaVersionAsString(version) ==
    IF ~betaMatch(version)
    THEN [exit |-> 1, version |-> <<>>]
    ELSE [exit |-> 0,
          version |-> SubSeq(version, 1, 8) \o <<Num(version[9].a \o <<1>>)>>]

\* exit 1 stands for process.exit(1)
incrementBetaVersion(version) ==
    IF ~betaMatch(version)
    THEN [exit |-> 1, version |-> <<>>]
    ELSE [exit |-> 0,
          version |-> SubSeq(version, 1, 8)
                         \o <<Num(toString(parseInt(version[9].a) + 1))>>]

\* the lines of CHANGELOG.md
Header(v) == [k |-> "header", v |-> v]
Text(k) == [k |-> k, v |-> <<>>]

\* changelog.match(/^## Version /m): the first line that starts a version
\* header, 0 when there is none
versionHeaderPattern(changelog) ==
    IF \E i \in 1..Len(changelog) : changelog[i].k = "header"
    THEN CHOOSE i \in 1..Len(changelog) :
            /\ changelog[i].k = "header"
            /\ \A j \in 1..(i - 1) : changelog[j].k # "header"
    ELSE 0

\* `## Version ${newVersion}\n\n### Changes\n- TBD\n\n`
newHeader(newVersion) ==
    <<Header(newVersion), Text("blank"), Text("changes"), Text("tbd"),
      Text("blank")>>

\* what updateChangelog leaves of CHANGELOG.md and the files it wrote
updateChangelog(changelog, newVersion) ==
    IF ~changelog.exists
    THEN [changelog |-> changelog, written |-> <<>>]
    ELSE IF versionHeaderPattern(changelog.lines) = 0
    THEN [changelog |-> changelog, written |-> <<>>]
    ELSE LET insertPosition == versionHeaderPattern(changelog.lines)
         IN [changelog |->
                [changelog EXCEPT !.lines =
                    SubSeq(@, 1, insertPosition - 1)
                       \o newHeader(newVersion)
                       \o SubSeq(@, insertPosition, Len(@))],
             written |-> <<"CHANGELOG.md">>]

\* a bug: module.json is written whether or not its version differs
syncVersionsRewriting(f, targetVersion) ==
    LET version == IF targetVersion # <<>> THEN targetVersion ELSE f.pkg
        pkg == targetVersion # <<>> /\ f.pkg # version
        docs == f.docs.exists /\ f.docs.version # version
    IN [files |-> [f EXCEPT !.pkg = IF pkg THEN version ELSE @,
                            !.mod = version,
                            !.docs.version = IF docs THEN version ELSE @],
        written |-> (IF pkg THEN <<"package.json">> ELSE <<>>)
                       \o <<"module.json">>
                       \o (IF docs THEN <<"docs/module.json">> ELSE <<>>)]

\* what syncVersions leaves of the files and the files it wrote, in order;
\* targetVersion is process.argv[2], the empty string when it is not given
syncVersions(f, targetVersion) ==
    LET version == IF targetVersion # <<>> THEN targetVersion ELSE f.pkg
        pkg == targetVersion # <<>> /\ f.pkg # version
        mod == f.mod # version
        docs == f.docs.exists /\ f.docs.version # version
    IN [files |-> [f EXCEPT !.pkg = IF pkg THEN version ELSE @,
                            !.mod = IF mod THEN version ELSE @,
                            !.docs.version = IF docs THEN version ELSE @],
        written |-> (IF pkg THEN <<"package.json">> ELSE <<>>)
                       \o (IF mod THEN <<"module.json">> ELSE <<>>)
                       \o (IF docs THEN <<"docs/module.json">> ELSE <<>>)]

\* main of bump-beta.js: the files it leaves, the files it wrote, in order,
\* and its exit code
main(f) ==
    LET newVersion == incrementBetaVersion(f.pkg)
    IN IF newVersion.exit # 0
       THEN [files |-> f, written |-> <<>>, exit |-> newVersion.exit]
       ELSE LET sync == syncVersions([f EXCEPT !.pkg = newVersion.version],
                                     <<>>)
                log == updateChangelog(sync.files.changelog,
                                       newVersion.version)
            IN [files |-> [sync.files EXCEPT !.changelog = log.changelog],
                written |-> <<"package.json">> \o sync.written
                               \o log.written,
                exit |-> 0]

\* the checkouts the scripts are run on
PkgVersions ==
    {Beta(<<1>>, <<0>>, <<0>>, <<5>>), Beta(<<1>>, <<0>>, <<0>>, <<9>>),
     Beta(<<1>>, <<0>>, <<0>>, <<0, 9>>), Release(<<1>>, <<0>>, <<0>>),
     <<Num(<<1>>), Dot, Num(<<0>>), Dot, Num(<<0>>), Dash, Word("rc"), Dot,
       Num(<<1>>)>>,
     <<Num(<<1>>), Dot, Num(<<0>>), Dot, Num(<<0>>), Dash, Word("beta"),
       Dot>>}

ModVersions ==
    {Beta(<<1>>, <<0>>, <<0>>, <<5>>), Release(<<1>>, <<0>>, <<0>>)}

DocsFiles ==
    {[exists |-> FALSE, version |-> <<>>],
     [exists |-> TRUE, version |-> Beta(<<1>>, <<0>>, <<0>>, <<5>>)],
     [exists |-> TRUE, version |-> Beta(<<1>>, <<0>>, <<0>>, <<4>>)]}

Changelogs ==
    {[exists |-> FALSE, lines |-> <<>>],
     [exists |-> TRUE, lines |-> <<Text("title"), Text("blank")>>],
     [exists |-> TRUE,
      lines |-> <<Header(Beta(<<1>>, <<0>>, <<0>>, <<5>>)), Text("blank")>>],
     [exists |-> TRUE,
      lines |-> <<Text("title"), Text("blank"),
                  Header(Beta(<<1>>, <<0>>, <<0>>, <<5>>)), Text("note"),
                  Header(Beta(<<1>>, <<0>>, <<0>>, <<4>>)), Text("note")>>]}

Checkouts ==
    [pkg : PkgVersions, mod : ModVersions, docs : DocsFiles,
     changelog : Changelogs]

\* process.argv[2] of sync-versions.js
Arguments ==
    {<<>>, Beta(<<1>>, <<0>>, <<0>>, <<5>>), Release(<<2>>, <<0>>, <<0>>)}

\* the repository as it is: every file at 1.0.0-beta.5
Repository ==
    [pkg |-> Beta(<<1>>, <<0>>, <<0>>, <<5>>),
     mod |-> Beta(<<1>>, <<0>>, <<0>>, <<5>>),
     docs |-> [exists |-> FALSE, version |-> <<>>],
     changelog |->
        [exists |-> TRUE,
         lines |-> <<Text("title"), Text("blank"),
                     Header(Beta(<<1>>, <<0>>, <<0>>, <<5>>)), Text("note"),
                     Header(Beta(<<1>>, <<0>>, <<0>>, <<4>>)), Text("note")>>]]

Init ==
    /\ Loaded
    /\ files = Repository
    /\ runs = <<>>

module == <<results, resultQuantities, pendingQuantities, modifyChat, stack,
            ret, op, rolled, enq, created, chat, caught, notified>>

\* node scripts/sync-versions.js [version]
RunSyncVersions(targetVersion) ==
    /\ Len(runs) < MaxRuns
    /\ files' = syncVersions(files, targetVersion).files
    /\ runs' = Append(runs,
          [script |-> "sync-versions", argv |-> targetVersion, exit |-> 0,
           written |-> syncVersions(files, targetVersion).written])
    /\ UNCHANGED module

\* npm run version:bump-beta
RunBumpBeta ==
    /\ Len(runs) < MaxRuns
    /\ files' = main(files).files
    /\ runs' = Append(runs,
          [script |-> "bump-beta", argv |-> <<>>, exit |-> main(files).exit,
           written |-> main(files).written])
    /\ UNCHANGED module

ScriptInit ==
    /\ Loaded
    /\ files \in Checkouts
    /\ runs = <<>>

ScriptNext ==
    \/ \E targetVersion \in Arguments : RunSyncVersions(targetVersion)
    \/ RunBumpBeta

ScriptSpec == ScriptInit /\ [][ScriptNext]_vars

Next ==
    \/ \E t \in Tasks, table \in DrawTables, displayChat \in BOOLEAN :
          StartDraw(t, table, displayChat)
    \/ \E t \in Tasks, batch \in Batches, depth \in Depths :
          StartExpand(t, batch, depth)
    \/ \E t \in Tasks : EvaluateReturns(t)
    \/ \E t \in Tasks : FromUuidReturns(t)
    \/ \E t \in Tasks : DrawReturns(t)
    \/ \E t \in Tasks : SubResultsReturn(t)
    \/ \E t \in Tasks : ProcessResultReturns(t)
    \/ \E t \in Tasks : WrappedReturns(t)
    \/ \E t \in Tasks : ResultsProcessed(t)
    \/ \E t \in Tasks : EnrichReturns(t)
    \/ \E t \in Tasks : ChatReturns(t)
    \/ \E t \in Tasks : EvaluateThrows(t)
    \/ \E t \in Tasks : FromUuidThrows(t)
    \/ \E t \in Tasks : WrappedThrows(t)
    \/ \E t \in Tasks : RetryReturns(t)
    \/ \E t \in Tasks : RetryThrows(t)
    \/ \E t \in Tasks : EnrichThrows(t)
    \/ \E data \in SourceIds, item \in SourceIds :
          preCreateItem(sourceIdOf(data, item))

Spec == Init /\ [][Next]_vars

(***************************************************************************)
(* The claims.                                                             *)
(***************************************************************************)
\* task t runs its chain in this step
Stepped(t) == stack'[t] # stack[t]

QueueOf(pending, uuid) ==
    IF uuid \in DOMAIN pending THEN pending[uuid] ELSE <<>>

Uuids == {"Item.abc", "Item.def", "Item.gone", "Table.xyz", "Table.loop",
          "Table.echo", "Actor.npc"}

\* the step of processResult in which fromUuid hands back an Item
LeafStep(t) ==
    /\ At(t, "processResult", "awaitFromUuid")
    /\ fromUuid(Top(stack[t]).parsed.uuid) = "Item"
    /\ Stepped(t)

\* C1: when processResult resolves a directive of quantity q > 0 to an Item,
\* the Result gets the one Quantity Record, of quantity q, the queue of the
\* target grows by the one entry q behind what was queued, and the queues of
\* the other targets stay as they are.
C1_LeafRecordsAndQueues ==
    [][\A t \in Tasks : LeafStep(t) =>
          LET f == Top(stack[t])
          IN /\ f.quantity > 0
             /\ f.result \in DOMAIN resultQuantities'
             /\ resultQuantities'[f.result] =
                    [quantity |-> f.quantity, documentUuid |-> f.parsed.uuid,
                     name |-> f.parsed.name, expandedToSubResults |-> FALSE]
             /\ \A r \in DOMAIN resultQuantities' \ {f.result} :
                    /\ r \in DOMAIN resultQuantities
                    /\ resultQuantities'[r] = resultQuantities[r]
             /\ QueueOf(pendingQuantities', f.parsed.uuid) =
                    Append(QueueOf(pendingQuantities, f.parsed.uuid),
                           f.quantity)
             /\ \A u \in Uuids \ {f.parsed.uuid} :
                    /\ u \in DOMAIN pendingQuantities'
                         <=> u \in DOMAIN pendingQuantities
                    /\ QueueOf(pendingQuantities', u)
                         = QueueOf(pendingQuantities, u)
             /\ ret'[t] = Value(<<f.result>>)]_vars

\* a leaf was queued behind an entry of another quantity
C1_Witness ==
    \E t \in Tasks :
        /\ enq[t] # <<>>
        /\ \E u \in DOMAIN pendingQuantities :
              /\ Len(pendingQuantities[u]) >= 2
              /\ enq[t][Len(enq[t])][1] = u
              /\ pendingQuantities[u][1] # pendingQuantities[u][2]

Elements(seq) == {seq[i] : i \in 1..Len(seq)}

\* the step of processResult in which fromUuid hands back a RollTable below
\* the depth bound: the first draw of the sub-table starts
ExpansionStarts(t) ==
    /\ At(t, "processResult", "awaitFromUuid")
    /\ fromUuid(Top(stack[t]).parsed.uuid) = "RollTable"
    /\ Top(stack[t]).depth < MAX_RECURSION_DEPTH
    /\ Stepped(t)

\* the step of processResult in which the expanded results of a draw of the
\* sub-table come back
ExpansionGoesOn(t) ==
    /\ At(t, "processResult", "awaitSubResults")
    /\ Stepped(t)

\* the step of processResult in which a draw of the sub-table comes back
ExpansionExpandsDraw(t) ==
    /\ At(t, "processResult", "awaitDraw")
    /\ Stepped(t)

\* what C2 says of the steps of one composite expansion, but for the absence
\* of the original Result: f.idx draws are done and their expanded results
\* are in f.acc, in order; each draw's results are expanded at depth + 1;
\* each step starts the next draw of the sub-table until quantity draws are
\* done, and then hands back the concatenation and records the original
\* Result as expanded
ExpansionDrawsAndConcatenates(t) ==
    /\ ExpansionExpandsDraw(t) =>
          LET f == Top(stack[t])
              c == processResults(
                       SetTop(stack[t], [f EXCEPT !.pc = "awaitSubResults"]),
                       ret[t].val, f.depth + 1)
          IN /\ stack'[t] = c.stack
             /\ ret'[t] = c.ret
             /\ UNCHANGED <<results, resultQuantities, pendingQuantities>>
    /\ ExpansionStarts(t) =>
          LET f == Top(stack[t])
          IN /\ f.quantity > 0
             /\ stack'[t] = Append(SetTop(stack[t],
                                [f EXCEPT !.pc = "awaitDraw", !.idx = 0,
                                          !.acc = <<>>]),
                                DrawFrame(f.parsed.uuid, FALSE))
             /\ UNCHANGED <<results, resultQuantities, pendingQuantities>>
    /\ ExpansionGoesOn(t) =>
          LET f == Top(stack[t])
              out == f.acc \o ret[t].val
          IN /\ f.idx + 1 <= f.quantity
             /\ f.idx + 1 < f.quantity =>
                   /\ stack'[t] = Append(SetTop(stack[t],
                                      [f EXCEPT !.pc = "awaitDraw",
                                                !.idx = f.idx + 1,
                                                !.acc = out]),
                                      DrawFrame(f.parsed.uuid, FALSE))
                   /\ UNCHANGED resultQuantities
             /\ f.idx + 1 = f.quantity =>
                   /\ stack'[t] = Pop(stack[t])
                   /\ ret'[t] = Value(out)
                   /\ f.result \in DOMAIN resultQuantities'
                   /\ resultQuantities'[f.result] =
                          [quantity |-> f.quantity,
                           documentUuid |-> f.parsed.uuid,
                           name |-> f.parsed.name,
                           expandedToSubResults |-> TRUE]

\* C2 (as claimed): a directive of quantity q > 0 that resolves to a
\* RollTable below the depth bound draws the sub-table q separate times,
\* hands back the concatenation of the q expanded draws in order, records
\* the original Result as expanded, and the original Result is not in what
\* it hands back.
C2_OriginalNeverInOutput ==
    [][\A t \in Tasks :
          /\ ExpansionDrawsAndConcatenates(t)
          /\ (ExpansionGoesOn(t) /\ stack'[t] = Pop(stack[t])) =>
                Top(stack[t]).result \notin Elements(ret'[t].val)]_vars

\* C2 (amended): the same, but what is handed back is exactly the
\* concatenation of the q expanded draws, so the original Result is in it
\* when, and only when, a draw of the sub-table handed it back.
C2_ExpansionIsConcatenation ==
    [][\A t \in Tasks : ExpansionDrawsAndConcatenates(t)]_vars

\* api.processResults([rXyz]) handed back two draws of Table.xyz
C2_Witness ==
    \E t \in Tasks :
        /\ Done(t)
        /\ op[t].batch = <<"rXyz">>
        /\ op[t].depth = 0
        /\ ret[t] = Value(<<"rDef", "rDef">>)
        /\ "rXyz" \in DOMAIN resultQuantities
        /\ resultQuantities["rXyz"].quantity = 2
        /\ resultQuantities["rXyz"].expandedToSubResults

\* the step of processResult in which fromUuid hands back a RollTable while
\* the depth is MAX_RECURSION_DEPTH
DepthBoundStep(t) ==
    /\ At(t, "processResult", "awaitFromUuid")
    /\ fromUuid(Top(stack[t]).parsed.uuid) = "RollTable"
    /\ Top(stack[t]).depth = MAX_RECURSION_DEPTH
    /\ Stepped(t)

\* C3: a directive that resolves to a RollTable at depth 10 is handed back
\* as it is, whatever its quantity: no draw starts, no Quantity Record is
\* made, nothing is queued.
C3_DepthBoundPassesThrough ==
    [][\A t \in Tasks : DepthBoundStep(t) =>
          /\ Top(stack[t]).quantity > 0
          /\ stack'[t] = Pop(stack[t])
          /\ ret'[t] = Value(<<Top(stack[t]).result>>)
          /\ UNCHANGED <<results, resultQuantities, pendingQuantities, enq>>
      ]_vars

\* api.processResults([rXyz], 10) came back with rXyz after a roll of 2
C3_Witness ==
    \E t \in Tasks :
        /\ Done(t)
        /\ op[t].kind = "expand"
        /\ op[t].depth = MAX_RECURSION_DEPTH
        /\ op[t].batch = <<"rXyz">>
        /\ rolled[t] = 2
        /\ ret[t] = Value(<<"rXyz">>)
        /\ "rXyz" \notin DOMAIN resultQuantities

\* the step of processResult in which evaluateFormula hands back a total
EvaluateStep(t) ==
    /\ At(t, "processResult", "awaitEvaluate")
    /\ Stepped(t)
    /\ ret'[t].kind # "throw"
    /\ caught'[t] = caught[t]

\* C9: a directive that rolls a quantity <= 0 is handed back as it is: no
\* Quantity Record, nothing queued, no fromUuid, no draw.
C9_NonPositivePassesThrough ==
    [][\A t \in Tasks : (EvaluateStep(t) /\ rolled'[t] <= 0) =>
          /\ stack'[t] = Pop(stack[t])
          /\ ret'[t] = Value(<<Top(stack[t]).result>>)
          /\ UNCHANGED <<results, resultQuantities, pendingQuantities, enq>>
      ]_vars

\* api.processResults([rZero]) came back with rZero after a roll of -1
C9_Witness ==
    \E t \in Tasks :
        /\ Done(t)
        /\ op[t].batch = <<"rZero">>
        /\ rolled[t] = -1
        /\ ret[t] = Value(<<"rZero">>)
        /\ enq[t] = <<>>

\* intercepted draws that the top-level call of task t has nested
NestedDraws(t) ==
    Nest(stack[t]) - (IF op[t].kind = "draw" THEN 1 ELSE 0)

\* C4 (as claimed): the depth bound stops self-referential recursion: the
\* chain of nested draws that a top-level draw triggers is never longer than
\* MAX_RECURSION_DEPTH.
C4_NestedDrawsBounded ==
    \A t \in Tasks : NestedDraws(t) <= MAX_RECURSION_DEPTH

\* C5 (as claimed): expanding the linked Result rXyz ([[/r 2]] on Table.xyz,
\* whose draw is always the leaf rDef with [[/r 1]] on Item.def) hands back
\* two Results, each with a Quantity Record of quantity 1 for Item.def, and
\* this call has queued exactly two entries, both 1, for Item.def.
C5_NestedDrawQueuesTwo ==
    \A t \in Tasks :
        (/\ Done(t)
         /\ op[t].kind = "expand"
         /\ op[t].batch = <<"rXyz">>
         /\ op[t].depth = 0)
        => /\ Len(ret[t].val) = 2
           /\ \A i \in 1..Len(ret[t].val) :
                 /\ ret[t].val[i] \in DOMAIN resultQuantities
                 /\ resultQuantities[ret[t].val[i]].quantity = 1
                 /\ resultQuantities[ret[t].val[i]].documentUuid = "Item.def"
           /\ enq[t] = <<<<"Item.def", 1>>, <<"Item.def", 1>>>>
\* the step in which the preCreateItem hook takes a quantity
DequeueStep == created' # created

\* C6: the hook hands an item the quantity at the head of its target's queue
\* and leaves the rest of the queue in the order it was queued, so successive
\* creations get the quantities in the order of queueing; the dequeue that
\* takes the last entry removes the target's key, no other dequeue does, and
\* the other targets' queues stay as they are.
C6_DequeueIsFifo ==
    [][DequeueStep =>
          LET item == created'[Len(created')]
              queue == QueueOf(pendingQuantities, item.sourceId)
          IN /\ created' = Append(created, item)
             /\ queue # <<>>
             /\ item.quantity = Head(queue)
             /\ QueueOf(pendingQuantities', item.sourceId) = Tail(queue)
             /\ item.sourceId \in DOMAIN pendingQuantities' <=> Len(queue) > 1
             /\ \A u \in Uuids \ {item.sourceId} :
                    /\ u \in DOMAIN pendingQuantities'
                         <=> u \in DOMAIN pendingQuantities
                    /\ QueueOf(pendingQuantities', u)
                         = QueueOf(pendingQuantities, u)]_vars

\* two items of one target got two different quantities, in the order the
\* two were queued, and the target's key is gone
C6_Witness ==
    /\ Len(created) = 2
    /\ created[1].sourceId = created[2].sourceId
    /\ created[1].quantity # created[2].quantity
    /\ created[1].sourceId \notin DOMAIN pendingQuantities
    /\ \E t, u \in Tasks :
          /\ t < u
          /\ enq[t] = <<<<created[1].sourceId, created[1].quantity>>>>
          /\ enq[u] = <<<<created[2].sourceId, created[2].quantity>>>>

\* C7: no key of pendingQuantities has an empty queue; a queue grows only in
\* the step of processResult that resolves a directive to an Item, for that
\* Item, and changes otherwise only in a step of the preCreateItem hook that
\* takes a quantity.
C7_QueueKeysNeverEmpty ==
    /\ [](\A u \in DOMAIN pendingQuantities : pendingQuantities[u] # <<>>)
    /\ [][\A u \in Uuids :
             LET old == QueueOf(pendingQuantities, u)
                 new == QueueOf(pendingQuantities', u)
             IN /\ Len(new) > Len(old) =>
                      \E t \in Tasks : /\ LeafStep(t)
                                       /\ Top(stack[t]).parsed.uuid = u
                /\ (new # old /\ Len(new) <= Len(old)) =>
                      /\ DequeueStep
                      /\ created'[Len(created')].sourceId = u
                /\ (u \in DOMAIN pendingQuantities'
                      /\ u \notin DOMAIN pendingQuantities) =>
                      Len(new) > Len(old)]_vars

\* a target's only entry was taken and its key removed while another target
\* still has entries queued
C7_Witness ==
    /\ created # <<>>
    /\ created[Len(created)].sourceId \notin DOMAIN pendingQuantities
    /\ \E u \in DOMAIN pendingQuantities :
          /\ u # created[Len(created)].sourceId
          /\ pendingQuantities[u] # <<>>

\* the Results of batch b that have no directive, as loaded
DirectiveLess(b) ==
    {i \in 1..Len(b) : parseQuantityResult(WorldResults[b[i]]) = NullParsed}

RECURSIVE Sum(_, _)
Sum(segs, j) == IF j = 0 THEN 0 ELSE segs[j].n + Sum(segs, j - 1)

\* in a processResults frame, every Result handled so far has its segment of
\* processed, in input order, and the segment of a directive-less Result is
\* that Result
SegmentsInPlace(f) ==
    /\ Len(f.segs) = f.idx - 1
    /\ Len(f.acc) = Sum(f.segs, Len(f.segs))
    /\ \A j \in 1..Len(f.segs) :
          ~f.segs[j].parsed =>
             /\ f.segs[j].n = 1
             /\ f.acc[Sum(f.segs, j)] = f.results[j]

\* api.processResults is called by task t
ExpandCall(t) == Idle(t) /\ op'[t].kind = "expand"

RECURSIVE IsSubSeq(_, _)
IsSubSeq(a, b) ==
    IF a = <<>> THEN TRUE
    ELSE IF b = <<>> THEN FALSE
    ELSE IF Head(a) = Head(b) THEN IsSubSeq(Tail(a), Tail(b))
    ELSE IsSubSeq(a, Tail(b))

RECURSIVE Pick(_, _, _)
Pick(b, I, i) ==
    IF i > Len(b) THEN <<>>
    ELSE (IF i \in I THEN <<b[i]>> ELSE <<>>) \o Pick(b, I, i + 1)

\* C8: api.processResults on a batch without any directive hands back the
\* batch itself, resolves at once, and leaves the Results, the Quantity
\* Ledger and the queues as they are; in any batch, a directive-less Result
\* sits in the output between what its left siblings and what its right
\* siblings turned into.
C8_DirectiveLessPassThrough ==
    /\ [][\A t \in Tasks :
             (ExpandCall(t)
                /\ \A i \in 1..Len(op'[t].batch) :
                      parseQuantityResult(results[op'[t].batch[i]])
                          = NullParsed)
             => /\ stack'[t] = <<>>
                /\ ret'[t] = Value(op'[t].batch)
                /\ UNCHANGED <<results, resultQuantities,
                               pendingQuantities>>]_vars
    /\ [](\A t \in Tasks : \A i \in 1..Len(stack[t]) :
             stack[t][i].fn = "processResults" =>
                SegmentsInPlace(stack[t][i]))
    /\ [](\A t \in Tasks :
             (Done(t) /\ op[t].kind = "expand") =>
                IsSubSeq(Pick(op[t].batch, DirectiveLess(op[t].batch), 1),
                         ret[t].val))

\* api.processResults([rPlain, rNote]) handed back [rPlain, rNote]
C8_Witness ==
    \E t \in Tasks :
        /\ Done(t)
        /\ op[t].kind = "expand"
        /\ op[t].batch = <<"rPlain", "rNote">>
        /\ ret[t].val = <<"rPlain", "rNote">>
        /\ resultQuantities = EmptyMap
        /\ pendingQuantities = EmptyMap

\* api.processResults([rNote, rXyz, rPlain]) handed back rNote, what the two
\* draws of Table.xyz turned into, rPlain
C8_MixedBatchResolved ==
    \E t \in Tasks :
        /\ Done(t)
        /\ op[t].kind = "expand"
        /\ op[t].batch = <<"rNote", "rXyz", "rPlain">>
        /\ op[t].depth = 0
        /\ ret[t].val = <<"rNote", "rDef", "rDef", "rPlain">>

\* rTorch as loaded: text, "[[/r 1d4]]@UUID[Item.abc]{Torch}"
TorchNormalized ==
    results["rTorch"] = [type |-> "document", documentUuid |-> "Item.abc",
                         name |-> "Torch", description |-> <<>>]

\* the step of processResult in which the text Result rTorch, rolled 2,
\* is found to point at an Item
TorchLeafStep(t) ==
    /\ LeafStep(t)
    /\ Top(stack[t]).result = "rTorch"
    /\ Top(stack[t]).quantity = 2
    /\ results["rTorch"].type = "text"

\* C10: the text Result rTorch, "[[/r 1d4]]@UUID[Item.abc]{Torch}", rolled
\* 2 with Item.abc an Item: the step that resolves it makes it a document
\* Result with target Item.abc, name Torch and empty description, gives it
\* the Quantity Record of quantity 2 and queues the one 2 for Item.abc; the
\* call api.processResults([rTorch]) resolves to [rTorch], the same Result,
\* normalized, with one 2 queued by the call for Item.abc.
C10_TorchNormalized ==
    /\ [][\A t \in Tasks : TorchLeafStep(t) =>
             /\ Top(stack[t]).parsed =
                    [formula |-> "1d4", uuid |-> "Item.abc", name |-> "Torch"]
             /\ TorchNormalized'
             /\ resultQuantities'["rTorch"].quantity = 2
             /\ resultQuantities'["rTorch"].documentUuid = "Item.abc"
             /\ QueueOf(pendingQuantities', "Item.abc") =
                    Append(QueueOf(pendingQuantities, "Item.abc"), 2)
             /\ ret'[t] = Value(<<"rTorch">>)]_vars
    /\ [](\A t \in Tasks :
             (/\ Done(t)
              /\ op[t].kind = "expand"
              /\ op[t].batch = <<"rTorch">>
              /\ op[t].depth = 0
              /\ rolled[t] = 2)
             => /\ ret[t].val = <<"rTorch">>
                /\ TorchNormalized
                /\ enq[t] = <<<<"Item.abc", 2>>>>
                /\ "rTorch" \in DOMAIN resultQuantities
                /\ resultQuantities["rTorch"].documentUuid = "Item.abc"
                /\ resultQuantities["rTorch"].name = "Torch"
                /\ (\A u \in Tasks \ {t} : Idle(u)) =>
                      /\ resultQuantities["rTorch"].quantity = 2
                      /\ Len(QueueOf(pendingQuantities, "Item.abc"))
                            + Len(created) = 1)

\* api.processResults([rTorch]) rolled 2 and resolved, alone
C10_Witness ==
    \E t \in Tasks :
        /\ Done(t)
        /\ op[t].kind = "expand"
        /\ op[t].batch = <<"rTorch">>
        /\ rolled[t] = 2
        /\ \A u \in Tasks \ {t} : Idle(u)
        /\ TorchNormalized
        /\ pendingQuantities = [u \in {"Item.abc"} |-> <<2>>]
\* the wrappedDraw frames of task t
DrawFrames(t) == {i \in 1..Len(stack[t]) : stack[t][i].fn = "wrappedDraw"}

\* a wrappedDraw of task t catches an error in this step
CaughtStep(t) == caught'[t] # caught[t]

\* the error that the step catches
CaughtNow(t) == caught'[t][Len(caught'[t])]

\* the step in which the re-run of the host's own draw resolves
RetryStep(t) ==
    /\ At(t, "wrappedDraw", "awaitRetry")
    /\ Stepped(t)
    /\ ret'[t].kind = "value"

\* C11: wrappedDraw contains every failure of its steps after the host's own
\* draw: the frame that catches hands its drawResult back as a value; it
\* runs the host's draw again, with the options it was called with, only
\* when that draw had produced nothing, so the host's draw runs at most twice
\* per wrappedDraw and once when its first run resolved; the re-run's result
\* is handed back as it is; a top-level draw rejects only after the host's
\* draw threw twice.
C11_ErrorsContained ==
    /\ [](\A t \in Tasks : \A i \in DrawFrames(t) :
             LET f == stack[t][i]
             IN /\ f.calls \in {1, 2}
                /\ f.calls = 2 <=> f.pc = "awaitRetry"
                /\ f.drawn => f.calls = 1
                /\ f.passed = f.displayChat)
    /\ [][\A t \in Tasks : CaughtStep(t) =>
             LET e == CaughtNow(t)
                 g == stack[t][e.level]
                 below == SubSeq(stack[t], 1, e.level - 1)
             IN /\ caught'[t] = Append(caught[t], e)
                /\ g.fn = "wrappedDraw"
                /\ g.drawn =>
                      /\ stack'[t] = below
                      /\ ret'[t] = Value(IF e.pc = "callAll"
                                         THEN ret'[t].val ELSE g.results)
                      /\ e.pc = "callAll" => ret'[t].val \in notified'
                /\ ~g.drawn =>
                      /\ e.pc = "awaitWrapped"
                      /\ stack'[t] = Append(below,
                             [g EXCEPT !.pc = "awaitRetry", !.calls = 2])
                      /\ ret'[t] = NoRet]_vars
    /\ [][\A t \in Tasks : RetryStep(t) =>
             /\ stack'[t] = Pop(stack[t])
             /\ ret'[t].val \in TableDraws(Top(stack[t]).table)
             /\ UNCHANGED <<results, resultQuantities, pendingQuantities,
                            notified, chat>>]_vars
    /\ [](\A t \in Tasks :
             (op[t].kind = "draw" /\ ret[t].kind = "throw") =>
                /\ \E i \in 1..Len(caught[t]) :
                      /\ caught[t][i].level = 1
                      /\ caught[t][i].pc = "awaitWrapped"
                /\ \A i \in 1..Len(caught[t]) :
                      caught[t][i].level = 1 =>
                         caught[t][i].pc = "awaitWrapped")

\* the expansion of a top-level draw threw and the draw resolved with the
\* list of the host's draw
C11_Witness ==
    \E t \in Tasks :
        /\ Done(t)
        /\ op[t].kind = "draw"
        /\ ret[t] = Value(<<"rTorch", "rBad">>)
        /\ caught[t] = <<[table |-> op[t].table,
                          pc |-> "awaitProcessResults", level |-> 1]>>

\* the expansion of the top-level draw of task t threw
ExpansionFailed(t) ==
    /\ Done(t)
    /\ op[t].kind = "draw"
    /\ \E i \in 1..Len(caught[t]) :
          /\ caught[t][i].level = 1
          /\ caught[t][i].pc = "awaitProcessResults"
    /\ \A u \in Tasks \ {t} : Idle(u)

\* C12 (as claimed): when an adapter throws during the expansion of an
\* intercepted draw, the draw hands back the list of the host's draw, no
\* Result is normalized, and the expansion has left no Quantity Record and
\* nothing queued.
C12_FailedExpansionLeavesNoTrace ==
    \A t \in Tasks : ExpansionFailed(t) =>
        /\ ret[t].kind = "value"
        /\ ret[t].val \in TableDraws(op[t].table)
        /\ results = WorldResults
        /\ resultQuantities = EmptyMap
        /\ enq[t] = <<>>
\* the Results of rs that hold a Quantity Record for the Item u, in order
RECURSIVE PointingAt(_, _)
PointingAt(rs, u) ==
    IF rs = <<>> THEN <<>>
    ELSE (IF /\ Head(rs) \in DOMAIN resultQuantities
             /\ resultQuantities[Head(rs)].documentUuid = u
          THEN <<Head(rs)>> ELSE <<>>) \o PointingAt(Tail(rs), u)

\* the quantities the hook gave to the created items of source u, in order
RECURSIVE CreatedFor(_, _)
CreatedFor(items, u) ==
    IF items = <<>> THEN <<>>
    ELSE (IF Head(items).sourceId = u
          THEN <<Head(items).quantity>> ELSE <<>>)
         \o CreatedFor(Tail(items), u)

Items == {"Item.abc", "Item.def"}

\* C13 (as claimed): after a call that ran alone, when the items of a target
\* are created one per output Result pointing at the target, in the order
\* of the output, the j-th created item of the target gets the quantity of
\* the Quantity Record of the j-th such Result.
C13_CreationGetsItsRoll ==
    \A t \in Tasks :
        (/\ Done(t)
         /\ ret[t].kind = "value"
         /\ \A u \in Tasks \ {t} : Idle(u))
        => \A u \in Items :
              LET outs == PointingAt(ret[t].val, u)
                  got == CreatedFor(created, u)
              IN \A j \in 1..Len(got) :
                    j <= Len(outs) =>
                       got[j] = resultQuantities[outs[j]].quantity
\* the description is literally [[/r formula]]@UUID[uuid]{name}
SelfContained(d) == Len(d) = 2 /\ d[1].k = "roll" /\ d[2].k = "ref"

\* api.processResults([r]) is called by task t
ExpandCallOn(t, r) == ExpandCall(t) /\ op'[t].batch = <<r>>

\* C14 (as claimed): a Result whose description is the self-contained form
\* yields the directive written in the text, whatever its type and whether
\* or not it has a documentUuid: parseQuantityResult returns it, and
\* api.processResults on the Result starts processResult with it.
C14_SelfContainedAnyType ==
    [][\A t \in Tasks : \A r \in ResultIds :
          (ExpandCallOn(t, r) /\ SelfContained(results[r].description)) =>
             LET d == results[r].description
                 directive == [formula |-> d[1].a, uuid |-> d[2].a,
                               name |-> d[2].b]
             IN /\ parseQuantityResult(results[r]) = directive
                /\ stack'[t] # <<>>
                /\ Top(stack'[t]).fn = "processResult"
                /\ Top(stack'[t]).parsed = directive]_vars

\* the formula of the first roll marker of description d
FirstFormula(d) ==
    d[CHOOSE i \in 1..Len(d) :
         d[i].k = "roll" /\ \A j \in 1..(i - 1) : d[j].k # "roll"].a

\* a document Result with a documentUuid and a roll marker in its description
PreLinked(result) ==
    /\ result.type = "document"
    /\ result.documentUuid # Null
    /\ result.description # NullDescription
    /\ \E i \in 1..Len(result.description) : result.description[i].k = "roll"

\* C15: for a document Result that has a documentUuid and a description with
\* a roll marker, parseQuantityResult returns the formula of the first roll
\* marker with the Result's own documentUuid and name, also when the
\* description names another target; api.processResults on the Result starts
\* processResult with that directive.
C15_PreLinkedTakesOwnTarget ==
    /\ [](\A r \in ResultIds : PreLinked(results[r]) =>
             parseQuantityResult(results[r]) =
                [formula |-> FirstFormula(results[r].description),
                 uuid |-> results[r].documentUuid,
                 name |-> results[r].name])
    /\ [][\A t \in Tasks : \A r \in ResultIds :
             (ExpandCallOn(t, r) /\ PreLinked(results[r])) =>
                /\ stack'[t] # <<>>
                /\ Top(stack'[t]).fn = "processResult"
                /\ Top(stack'[t]).result = r
                /\ Top(stack'[t]).parsed =
                       [formula |-> FirstFormula(results[r].description),
                        uuid |-> results[r].documentUuid,
                        name |-> results[r].name]]_vars

\* api.processResults([rBoth]): rBoth points at Item.def and its description
\* names Item.abc; the quantity was recorded and queued for Item.def
C15_Witness ==
    \E t \in Tasks :
        /\ Done(t)
        /\ op[t].batch = <<"rBoth">>
        /\ ret[t] = Value(<<"rBoth">>)
        /\ enq[t] = <<<<"Item.def", 1>>>>
        /\ resultQuantities["rBoth"].documentUuid = "Item.def"
        /\ resultQuantities["rBoth"].name = "Gem"
        /\ PreLinked(results["rTwo"])

\* the shapes without a directive: a text Result without a reference, a
\* document Result without a documentUuid or without a roll marker, a
\* missing description
Malformed(result) ==
    \/ result.description = NullDescription
    \/ /\ result.type = "text"
       /\ \A i \in 1..Len(result.description) :
             result.description[i].k # "ref"
    \/ /\ result.type = "document"
       /\ result.documentUuid = Null
    \/ /\ result.type = "document"
       /\ \A i \in 1..Len(result.description) :
             result.description[i].k # "roll"

\* C16: for a text Result with a roll marker but no reference, a document
\* Result without a documentUuid or without a roll marker, and a Result
\* without a description, parseQuantityResult returns null, and
\* api.processResults on a batch of such Results resolves at once with the
\* batch, the Results and both ledgers as they were.
C16_MalformedIsNoDirective ==
    /\ [](\A r \in ResultIds : Malformed(results[r]) =>
             parseQuantityResult(results[r]) = NullParsed)
    /\ [][\A t \in Tasks :
             (ExpandCall(t) /\ \A i \in 1..Len(op'[t].batch) :
                                  Malformed(results[op'[t].batch[i]]))
             => /\ stack'[t] = <<>>
                /\ ret'[t] = Value(op'[t].batch)
                /\ UNCHANGED <<results, resultQuantities,
                               pendingQuantities, caught>>]_vars

\* api.processResults([rRoll, rLoose, rBare, rNull, rVoid]) handed the five
\* Results back
C16_Witness ==
    \E t \in Tasks :
        /\ Done(t)
        /\ op[t].batch = <<"rRoll", "rLoose", "rBare", "rNull", "rVoid">>
        /\ ret[t] = Value(<<"rRoll", "rLoose", "rBare", "rNull", "rVoid">>)
        /\ results = WorldResults
        /\ resultQuantities = EmptyMap
        /\ pendingQuantities = EmptyMap
\* the step of wrappedDraw in which the host's own draw resolves
UnderlyingDrawn(t) ==
    /\ At(t, "wrappedDraw", "awaitWrapped")
    /\ Stepped(t)
    /\ caught'[t] = caught[t]

\* the step of wrappedDraw in which processResults resolves
ExpansionDone(t) ==
    /\ At(t, "wrappedDraw", "awaitProcessResults")
    /\ Stepped(t)

\* the step of wrappedDraw in which the observers are called
NotifyStep(t) ==
    /\ \/ ExpansionDone(t) /\ ~(Top(stack[t]).displayChat /\ modifyChat)
       \/ At(t, "wrappedDraw", "awaitChat") /\ Stepped(t)
    /\ ret'[t].kind = "value"
    /\ stack'[t] = Pop(stack[t])

\* C17: wrappedDraw first awaits the host's own draw, called with the
\* caller's options, and has done nothing else by then; it then expands the
\* list of the host's draw at depth 0; when processResults has resolved it
\* stores the expanded list and, if wanted, sends the chat message built from
\* the records of that list; it calls the resultsReady observers last, in the
\* step in which it returns, with the list it returns, which is the expanded
\* list; the observers are called in no other step.
C17_StepsInOrder ==
    /\ [](\A t \in Tasks : \A i \in DrawFrames(t) :
             LET f == stack[t][i]
             IN /\ f.passed = f.displayChat
                /\ f.pc \in {"awaitWrapped", "awaitRetry"} =>
                      ~f.drawn /\ f.results = <<>>
                /\ f.pc \in {"awaitProcessResults", "awaitEnrich",
                             "awaitChat"} => f.drawn)
    /\ [][\A t \in Tasks : UnderlyingDrawn(t) =>
             \E rs \in TableDraws(Top(stack[t]).table) :
                LET c == processResults(
                             SetTop(stack[t],
                                 [Top(stack[t]) EXCEPT
                                     !.drawn = TRUE, !.results = rs,
                                     !.pc = "awaitProcessResults"]),
                             rs, 0)
                IN /\ stack'[t] = c.stack
                   /\ ret'[t] = c.ret
                   /\ UNCHANGED <<notified, chat>>]_vars
    /\ [][\A t \in Tasks :
             (ExpansionDone(t) /\ Top(stack[t]).displayChat /\ modifyChat)
             => /\ Top(stack'[t]).pc \in {"awaitEnrich", "awaitChat"}
                /\ Top(stack'[t]).results = ret[t].val
                /\ UNCHANGED <<notified, chat>>]_vars
    /\ [][chat' # chat =>
             \E t \in Tasks :
                /\ At(t, "wrappedDraw", "awaitEnrich")
                /\ chat' = chat \cup
                      {[table |-> Top(stack[t]).table,
                        lines |-> lines(quantityEntries(
                                            Top(stack[t]).results))]}
                /\ Top(stack'[t]).pc = "awaitChat"
                /\ UNCHANGED notified]_vars
    /\ [][\A t \in Tasks : NotifyStep(t) =>
             /\ ret'[t].val = IF ExpansionDone(t) THEN ret[t].val
                              ELSE Top(stack[t]).results
             /\ notified' = notified \cup {ret'[t].val}]_vars
    /\ [][notified' # notified => \E t \in Tasks : NotifyStep(t)]_vars

\* a draw of Table.loot with chat display resolved with the expanded list
\* [rPlain, rDef, rDef]; the chat message was sent and the observers got
\* that list
C17_Witness ==
    \E t \in Tasks :
        /\ Done(t)
        /\ op[t].kind = "draw"
        /\ op[t].table = "Table.loot"
        /\ op[t].displayChat
        /\ ret[t] = Value(<<"rPlain", "rDef", "rDef">>)
        /\ <<"rPlain", "rDef", "rDef">> \in notified
        /\ <<"rPlain", "rXyz">> \notin notified
        /\ \E m \in chat : m.table = "Table.loot"
\* a top-level call of task t is between its start and its end
InCall(t) == stack[t] # <<>>

\* C18 (as claimed): while a call of processResults is between its start and
\* its end, the Quantity Records and the queues are changed by that call
\* only: by no other call and by no preCreateItem hook.
C18_BatchRunsAlone ==
    [][(resultQuantities' # resultQuantities
           \/ pendingQuantities' # pendingQuantities)
       => \A t \in Tasks : InCall(t) => Stepped(t)]_vars

\* the step of processResult in which a directive is dropped: the target
\* does not resolve, is neither Item nor RollTable, or is a RollTable at the
\* depth bound
DropStep(t) ==
    /\ At(t, "processResult", "awaitFromUuid")
    /\ Stepped(t)
    /\ LET f == Top(stack[t])
       IN \/ f.parsed.uuid \in {"Item.gone", "Actor.npc"}
          \/ /\ f.parsed.uuid \in {"Table.xyz", "Table.loop", "Table.echo",
                                   "Table.flaky", "Table.pair"}
             /\ f.depth >= MAX_RECURSION_DEPTH

\* the step of processResults in which a processResult hands back
SiblingStep(t) ==
    /\ At(t, "processResults", "awaitProcessResult")
    /\ Stepped(t)

\* the batches whose first directive is dropped and whose second is a leaf
DropThenLeaf(o) ==
    /\ o.kind = "expand"
    /\ \/ o.batch \in {<<"rGone", "rDef">>, <<"rZero", "rDef">>,
                       <<"rActor", "rDef">>}
       \/ o.batch = <<"rXyz", "rDef">> /\ o.depth = MAX_RECURSION_DEPTH

\* C19: a directive whose target does not resolve, is neither Item nor
\* RollTable, or is a RollTable at the depth bound, like one that rolls a
\* quantity <= 0, is handed back as it is, without a Quantity Record or a
\* queue entry and without an error; whatever a processResult hands back,
\* processResults goes on with the next Result of the batch; so a batch of
\* such a directive and a leaf directive resolves with both Results, the
\* leaf recorded and queued, the other not.
C19_DroppedDirectiveKeepsBatch ==
    /\ [][\A t \in Tasks :
             (DropStep(t) \/ (EvaluateStep(t) /\ rolled'[t] <= 0)) =>
                /\ stack'[t] = Pop(stack[t])
                /\ ret'[t] = Value(<<Top(stack[t]).result>>)
                /\ UNCHANGED <<results, resultQuantities, pendingQuantities,
                               enq, caught>>]_vars
    /\ [][\A t \in Tasks : SiblingStep(t) =>
             LET f == Top(stack[t])
                 next == f.idx + 1
             IN (/\ next <= Len(f.results)
                 /\ parseQuantityResult(results[f.results[next]])
                       # NullParsed)
                => /\ Len(stack'[t]) = Len(stack[t]) + 1
                   /\ Top(stack'[t]).fn = "processResult"
                   /\ Top(stack'[t]).pc = "awaitEvaluate"
                   /\ Top(stack'[t]).result = f.results[next]
                   /\ Top(stack'[t]).depth = f.depth
                   /\ stack'[t][Len(stack[t])].acc = f.acc \o ret[t].val]_vars
    /\ [](\A t \in Tasks : (Done(t) /\ DropThenLeaf(op[t])) =>
             /\ ret[t] = Value(op[t].batch)
             /\ enq[t] = <<<<"Item.def", 1>>>>
             /\ DOMAIN resultQuantities = {"rDef"}
             /\ results = WorldResults)

\* api.processResults([rXyz, rDef], 10) handed back both Results, rDef
\* recorded and queued
C19_Witness ==
    \E t \in Tasks :
        /\ Done(t)
        /\ op[t].kind = "expand"
        /\ op[t].batch = <<"rXyz", "rDef">>
        /\ op[t].depth = MAX_RECURSION_DEPTH
        /\ ret[t] = Value(<<"rXyz", "rDef">>)
        /\ "rXyz" \notin DOMAIN resultQuantities
        /\ "rDef" \in DOMAIN resultQuantities
        /\ pendingQuantities = [u \in {"Item.def"} |-> <<1>>]

\* C20: the fields of a Result change in one step only: the step of
\* processResult that resolves the directive of a text Result, of quantity
\* > 0, to an Item, and what that step writes is the updateSource of type,
\* documentUuid, name and description; no Result ever gets another field.
C20_OnlyNormalizationWrites ==
    /\ [][\A r \in ResultIds : results'[r] # results[r] =>
             \E t \in Tasks :
                /\ LeafStep(t)
                /\ Top(stack[t]).result = r
                /\ Top(stack[t]).quantity > 0
                /\ results[r].type = "text"
                /\ results'[r] =
                      [type |-> "document",
                       documentUuid |-> Top(stack[t]).parsed.uuid,
                       name |-> Top(stack[t]).parsed.name,
                       description |-> <<>>]]_vars
    /\ [](\A r \in ResultIds :
             /\ DOMAIN results[r] = DOMAIN WorldResults[r]
             /\ WorldResults[r].type = "document" =>
                   results[r] = WorldResults[r])

\* rTorch, a text Result, was normalized and rAbc, a document Result, was
\* recorded as a leaf with its fields as loaded
C20_Witness ==
    /\ TorchNormalized
    /\ "rAbc" \in DOMAIN resultQuantities
    /\ "rTorch" \in DOMAIN resultQuantities
    /\ results["rAbc"] = WorldResults["rAbc"]
    /\ \A t \in Tasks : Done(t)
\* the quantities task t's call has queued for the Item u, in order
RECURSIVE QueuedFor(_, _)
QueuedFor(entries, u) ==
    IF entries = <<>> THEN <<>>
    ELSE (IF Head(entries)[1] = u THEN <<Head(entries)[2]>> ELSE <<>>)
         \o QueuedFor(Tail(entries), u)

\* the recorded quantities of the Results of rs that are leaves of u, in order
RECURSIVE LeafQuantities(_, _)
LeafQuantities(rs, u) ==
    IF rs = <<>> THEN <<>>
    ELSE (IF /\ Head(rs) \in DOMAIN resultQuantities
             /\ resultQuantities[Head(rs)].documentUuid = u
          THEN <<resultQuantities[Head(rs)].quantity>> ELSE <<>>)
         \o LeafQuantities(Tail(rs), u)

\* a sequence without its immediate repetitions
RECURSIVE Squeeze(_)
Squeeze(q) ==
    IF Len(q) < 2 THEN q
    ELSE IF q[1] = q[2] THEN Squeeze(Tail(q))
    ELSE <<q[1]>> \o Squeeze(Tail(q))

\* C21 (as claimed): the quantities that one call of processResults appends
\* to the queue of a target are in the order in which the leaf Results of
\* that target stand in the list the call hands back (an entry queued again
\* for the same Result right after it counted once).
C21_QueuedInOutputOrder ==
    \A t \in Tasks :
        (Done(t) /\ ret[t].kind = "value" /\ \A u \in Tasks \ {t} : Idle(u))
        => \A u \in Items :
              Squeeze(QueuedFor(enq[t], u))
                 = Squeeze(LeafQuantities(ret[t].val, u))

\* the step of processResult in which a composite expansion completes: the
\* expanded results of the last draw come back and processResult returns
ExpansionCompletes(t) ==
    /\ ExpansionGoesOn(t)
    /\ stack'[t] = Pop(stack[t])

\* the record processResult writes for the Result of frame f
OwnRecord(f, expanded) ==
    [quantity |-> f.quantity, documentUuid |-> f.parsed.uuid,
     name |-> f.parsed.name, expandedToSubResults |-> expanded]

\* the Quantity Ledger is changed at the Result of task t's frame only, and
\* gets that Result's own record
WritesOwnRecord(t, expanded) ==
    /\ Top(stack[t]).result \in DOMAIN resultQuantities'
    /\ resultQuantities'[Top(stack[t]).result]
          = OwnRecord(Top(stack[t]), expanded)
    /\ \A r \in ResultIds \ {Top(stack[t]).result} :
          /\ r \in DOMAIN resultQuantities' <=> r \in DOMAIN resultQuantities
          /\ r \in DOMAIN resultQuantities =>
                resultQuantities'[r] = resultQuantities[r]

\* the Quantity Ledger is a map with one record per Result; a flagged record
\* is one of a RollTable directive, an unflagged one is one of an Item
RecordsWellFormed ==
    /\ DOMAIN resultQuantities \subseteq ResultIds
    /\ \A r \in DOMAIN resultQuantities :
          /\ resultQuantities[r].quantity > 0
          /\ resultQuantities[r].expandedToSubResults
                <=> fromUuid(resultQuantities[r].documentUuid) = "RollTable"
          /\ ~resultQuantities[r].expandedToSubResults
                <=> fromUuid(resultQuantities[r].documentUuid) = "Item"

\* what C22 says but for the absence of the original Result: records are
\* written by a leaf annotation (unflagged, on the annotated Result) and by
\* the completion of a composite expansion (flagged, on the original Result),
\* and by nothing else; neither touches the record of any other Result
RecordsAreOwn(t) ==
    /\ LeafStep(t) => WritesOwnRecord(t, FALSE)
    /\ ExpansionCompletes(t) => WritesOwnRecord(t, TRUE)

Recorded(rs) == Pick(rs, {i \in 1..Len(rs) : rs[i] \in DOMAIN resultQuantities}, 1)

\* the step of wrappedDraw in which ChatMessage.create is called
EmitStep(t) ==
    /\ At(t, "wrappedDraw", "awaitEnrich")
    /\ Stepped(t)
    /\ Len(stack'[t]) = Len(stack[t])
    /\ Top(stack'[t]).pc = "awaitChat"

\* after the step of wrappedDraw in which processResults resolved, the chat
\* message of task t is being built
ReportStarts(t) ==
    /\ Len(stack'[t]) = Len(stack[t])
    /\ Top(stack'[t]).pc = "awaitEnrich"

\* C23: the quantity chat message is built only when modifyChat is on, the
\* caller did not pass displayChat = false, and a Result of the expanded list
\* has a Quantity Record, and it is built whenever those three hold; it is
\* sent with one line per Result of the expanded list that has a record, in
\* list order, the line showing the quantity, target and name of the record
\* of that Result, so every record of a Result of the list is in it; no
\* other step sends a quantity chat message.
C23_ReportOfRecordedResults ==
    /\ [][\A t \in Tasks : ExpansionDone(t) =>
             LET f == Top(stack[t])
                 recorded == Recorded(ret[t].val)
             IN /\ ReportStarts(t) <=>
                      (modifyChat /\ f.passed /\ recorded # <<>>)
                /\ ReportStarts(t) =>
                      /\ Top(stack'[t]).results = ret[t].val
                      /\ Top(stack'[t]).acc =
                            [j \in 1..Len(recorded) |->
                                resultQuantities[recorded[j]]]]_vars
    /\ [][\A t \in Tasks : EmitStep(t) =>
             LET f == Top(stack[t])
             IN /\ modifyChat
                /\ f.passed
                /\ f.acc # <<>>
                /\ \E m \in chat' :
                      /\ chat' = chat \cup {m}
                      /\ m.table = f.table
                      /\ Len(m.lines) = Len(f.acc)
                      /\ \A j \in 1..Len(f.acc) :
                            /\ m.lines[j].quantity = f.acc[j].quantity
                            /\ m.lines[j].documentUuid = f.acc[j].documentUuid
                            /\ m.lines[j].name = f.acc[j].name]_vars
    /\ [][chat' # chat => \E t \in Tasks : EmitStep(t)]_vars

\* a draw of Table.pair with chat display resolved with [rDef, rGem]; the
\* chat message has the line of rDef's record and then that of rGem's
C23_Witness ==
    \E t \in Tasks :
        /\ Done(t)
        /\ op[t].kind = "draw"
        /\ op[t].table = "Table.pair"
        /\ op[t].displayChat
        /\ modifyChat
        /\ ret[t] = Value(<<"rDef", "rGem">>)
        /\ [table |-> "Table.pair",
            lines |-> <<[quantity |-> 1, documentUuid |-> "Item.def",
                         name |-> "Gem"],
                        [quantity |-> 2, documentUuid |-> "Item.def",
                         name |-> "Gem"]>>] \in chat

\* C24: the preCreateItem hook looks at nothing but the sourceId of the item
\* being created.  When a quantity is queued for that sourceId, the hook
\* takes the head of that queue, leaves the rest of it and the other queues
\* as they are, and writes the quantity taken at quantityPath of the creation
\* data; when the item has no sourceId or nothing is queued for it, the hook
\* leaves pendingQuantities and the creation data as they are.  The queues
\* shrink and creation data are written in no other way.
C24_HookTakesHeadOrNothing ==
    /\ [](\A data \in SourceIds, item \in SourceIds :
             LET sourceId == sourceIdOf(data, item)
                 queue == QueueOf(pendingQuantities, sourceId)
                 hook == consume(pendingQuantities, sourceId)
             IN IF sourceId # Null /\ queue # <<>>
                THEN /\ hook.written = <<Head(queue)>>
                     /\ QueueOf(hook.pending, sourceId) = Tail(queue)
                     /\ \A u \in DOMAIN pendingQuantities \ {sourceId} :
                           /\ u \in DOMAIN hook.pending
                           /\ hook.pending[u] = pendingQuantities[u]
                     /\ DOMAIN hook.pending \subseteq DOMAIN pendingQuantities
                ELSE /\ hook.written = <<>>
                     /\ hook.pending = pendingQuantities)
    /\ [][DequeueStep =>
             \E sourceId \in SourceIds \ {Null} :
                /\ QueueOf(pendingQuantities, sourceId) # <<>>
                /\ pendingQuantities'
                      = consume(pendingQuantities, sourceId).pending
                /\ created' = Append(created,
                      [sourceId |-> sourceId, path |-> "system.quantity",
                       quantity |-> Head(pendingQuantities[sourceId])])]_vars
    /\ [][(pendingQuantities' # pendingQuantities
             /\ \A t \in Tasks : ~Stepped(t)) => DequeueStep]_vars

\* an item of Item.def was created while 1, 1, 2 were queued for Item.def:
\* it got the 1 at system.quantity, and 1, 2 stay queued
C24_Witness ==
    /\ created = <<[sourceId |-> "Item.def", path |-> "system.quantity",
                    quantity |-> 1]>>
    /\ "Item.def" \in DOMAIN pendingQuantities
    /\ pendingQuantities["Item.def"] = <<1, 2>>

\* the number of leaf annotations the calls of tasks 1..n made for target u
RECURSIVE Annotated(_, _)
Annotated(u, n) ==
    IF n = 0 THEN 0
    ELSE Len(QueuedFor(enq[n], u)) + Annotated(u, n - 1)

\* C25: every quantity in pendingQuantities is > 0; the quantity a leaf
\* annotation queues is, in that step, the last of its target's queue and
\* the quantity of the Quantity Record the step writes for its Result; and
\* at any time the queue of a target holds as many entries as leaf
\* annotations were made for the target less the items of the target that
\* the hook gave a quantity.
C25_QueueBalance ==
    /\ [](\A u \in DOMAIN pendingQuantities :
             \A i \in 1..Len(pendingQuantities[u]) :
                pendingQuantities[u][i] > 0)
    /\ [](\A u \in Uuids :
             Len(QueueOf(pendingQuantities, u))
                = Annotated(u, NumTasks) - Len(CreatedFor(created, u)))
    /\ [][\A t \in Tasks : LeafStep(t) =>
             LET f == Top(stack[t])
                 new == QueueOf(pendingQuantities', f.parsed.uuid)
             IN /\ new # <<>>
                /\ f.result \in DOMAIN resultQuantities'
                /\ new[Len(new)] = resultQuantities'[f.result].quantity
                /\ ~resultQuantities'[f.result].expandedToSubResults
                /\ enq'[t] = Append(enq[t],
                                    <<f.parsed.uuid, new[Len(new)]>>)]_vars
    /\ [][\A t \in Tasks : enq'[t] # enq[t] => LeafStep(t)]_vars

\* three leaf annotations were made for Item.def and two items of Item.def
\* were created: one quantity stays queued
C25_Witness ==
    /\ Annotated("Item.def", NumTasks) = 3
    /\ Len(CreatedFor(created, "Item.def")) = 2
    /\ "Item.def" \in DOMAIN pendingQuantities
    /\ Len(pendingQuantities["Item.def"]) = 1

\* sequence a is the beginning of sequence b
Prefix(a, b) == Len(a) <= Len(b) /\ SubSeq(b, 1, Len(a)) = a

\* the step in which the preCreateItem hook takes a quantity for target u
DequeueOf(u) == DequeueStep /\ created'[Len(created')].sourceId = u

\* a step of task t on a failure path: an error is thrown or caught
FailureStep(t) ==
    \/ CaughtStep(t)
    \/ Stepped(t) /\ ret'[t].kind = "throw"

\* C26: what is queued for a target stays queued, in its order and with its
\* head at the head, through every step that is not a creation for that
\* target: the start, the steps and the end of any call, whether it fails or
\* not, add at most entries behind it; a step on a failure path changes no
\* queue at all; and a creation for the target takes the head, so an entry
\* left by an earlier draw goes to the first later creation before anything
\* a later draw queued.
C26_EntriesOutliveDraws ==
    /\ [][\A u \in Uuids :
             LET old == QueueOf(pendingQuantities, u)
                 new == QueueOf(pendingQuantities', u)
             IN IF DequeueOf(u)
                THEN /\ old # <<>>
                     /\ created'[Len(created')].quantity = Head(old)
                     /\ new = Tail(old)
                ELSE Prefix(old, new)]_vars
    /\ [][\A t \in Tasks : FailureStep(t) =>
             pendingQuantities' = pendingQuantities]_vars

\* the first call queued 2 for Item.abc; the second, a draw of Table.xyz,
\* queued 1 for Item.def and failed while sending its chat message; the item
\* of Item.abc that was created got the 2
C26_Witness ==
    /\ \A t \in Tasks : Done(t)
    /\ enq[1] = <<<<"Item.abc", 2>>>>
    /\ op[2].kind = "draw"
    /\ enq[2] = <<<<"Item.def", 1>>>>
    /\ caught[2] # <<>>
    /\ Len(created) = 1
    /\ created[1].sourceId = "Item.abc"
    /\ created[1].quantity = 2
    /\ pendingQuantities = MapSet(EmptyMap, "Item.def", <<1>>)

\* a script has run in this step; the run is the last of runs'
RunStep(script) ==
    /\ runs' # runs
    /\ runs'[Len(runs')].script = script

LastRun == runs'[Len(runs')]

\* version v reads X.Y.Z-beta.N
BetaForm(v) ==
    /\ Len(v) = 9
    /\ \A i \in {1, 3, 5, 9} : v[i].k = "num" /\ v[i].a # <<>>
    /\ v = Beta(v[1].a, v[3].a, v[5].a, v[9].a)

\* new is old with its beta number one up, written without leading zeros
BetaSuccessor(old, new) ==
    /\ BetaForm(new)
    /\ SubSeq(new, 1, 8) = SubSeq(old, 1, 8)
    /\ parseInt(new[9].a) = parseInt(old[9].a) + 1
    /\ new[9].a[1] # 0

FirstHeader(changelog) ==
    CHOOSE i \in 1..Len(changelog) :
        /\ changelog[i].k = "header"
        /\ \A j \in 1..(i - 1) : changelog[j].k # "header"

HasHeader(changelog) ==
    /\ changelog.exists
    /\ \E i \in 1..Len(changelog.lines) : changelog.lines[i].k = "header"

\* new is old with a section headed by version v put directly above the
\* first version header of old
HeaderInserted(old, new, v) ==
    LET i == FirstHeader(old)
    IN \E n \in 1..(Len(new) - Len(old)) :
          /\ Len(new) = Len(old) + n
          /\ SubSeq(new, 1, i - 1) = SubSeq(old, 1, i - 1)
          /\ new[i] = Header(v)
          /\ \A j \in 1..(n - 1) : new[i + j].k # "header"
          /\ SubSeq(new, i + n, Len(new)) = SubSeq(old, i, Len(old))

\* what C27 says of a run of bump-beta but for CHANGELOG.md: from
\* X.Y.Z-beta.N the three version files end at X.Y.Z-beta.(N+1), and
\* docs/module.json is not created; from any other version the script exits
\* with an error, has written no file, and the files are as they were
BumpsVersionFiles ==
    IF BetaForm(files.pkg)
    THEN /\ LastRun.exit = 0
         /\ BetaSuccessor(files.pkg, files'.pkg)
         /\ files'.mod = files'.pkg
         /\ files'.docs.exists = files.docs.exists
         /\ files.docs.exists => files'.docs.version = files'.pkg
         /\ ~files.docs.exists => files'.docs = files.docs
    ELSE /\ LastRun.exit # 0
         /\ LastRun.written = <<>>
         /\ files' = files

\* C27 (as claimed): bump-beta, run at version X.Y.Z-beta.N, leaves
\* package.json, module.json and docs/module.json (when it exists) at
\* X.Y.Z-beta.(N+1) and CHANGELOG.md with a new header of that version
\* directly above its former first version header; run at any other version
\* it exits with an error and has written no file.
C27_BumpInsertsHeader ==
    [][RunStep("bump-beta") =>
          /\ BumpsVersionFiles
          /\ BetaForm(files.pkg) =>
                /\ HasHeader(files.changelog)
                /\ files'.changelog.exists
                /\ HeaderInserted(files.changelog.lines,
                                  files'.changelog.lines, files'.pkg)]_vars

\* C27 (amended): the same, the new header being inserted when CHANGELOG.md
\* exists and has a version header; otherwise CHANGELOG.md is left as it is,
\* absent or without a version header, and the run succeeds all the same.
C27_BumpBetaRun ==
    [][RunStep("bump-beta") =>
          /\ BumpsVersionFiles
          /\ BetaForm(files.pkg) =>
                IF HasHeader(files.changelog)
                THEN /\ files'.changelog.exists
                     /\ HeaderInserted(files.changelog.lines,
                                       files'.changelog.lines, files'.pkg)
                     /\ LastRun.written[Len(LastRun.written)] = "CHANGELOG.md"
                ELSE /\ files'.changelog = files.changelog
                     /\ \A i \in 1..Len(LastRun.written) :
                           LastRun.written[i] # "CHANGELOG.md"]_vars

\* bump-beta has run at 1.0.0-beta.9 with docs/module.json present and two
\* versions in CHANGELOG.md: all is at 1.0.0-beta.10 and the new header
\* stands above the header of 1.0.0-beta.5
C27_Witness ==
    /\ Len(runs) = 1
    /\ runs[1].script = "bump-beta"
    /\ runs[1].exit = 0
    /\ runs[1].written = <<"package.json", "module.json", "docs/module.json",
                           "CHANGELOG.md">>
    /\ files.pkg = Beta(<<1>>, <<0>>, <<0>>, <<1, 0>>)
    /\ files.mod = files.pkg
    /\ files.docs = [exists |-> TRUE, version |-> files.pkg]
    /\ Len(files.changelog.lines) = 11
    /\ files.changelog.lines[3] = Header(files.pkg)
    /\ files.changelog.lines[8] = Header(Beta(<<1>>, <<0>>, <<0>>, <<5>>))

\* the version a run of sync-versions with argument argv aims at
Target(argv) == IF argv # <<>> THEN argv ELSE files.pkg

\* C28: a run of sync-versions leaves module.json and docs/module.json (when
\* it exists, and it is not created) at the target version, which is the
\* argument when one is given, and then package.json is at it too, and
\* package.json's version otherwise; it writes exactly the files whose
\* version was another, and nothing else changes; run again with the same
\* target, on any files at all or right after the first run, it writes no
\* file.
C28_SyncVersionsRun ==
    /\ [][RunStep("sync-versions") =>
             LET version == Target(LastRun.argv)
             IN /\ LastRun.exit = 0
                /\ files'.pkg = version
                /\ files'.mod = version
                /\ files'.docs.exists = files.docs.exists
                /\ files.docs.exists => files'.docs.version = version
                /\ ~files.docs.exists => files'.docs = files.docs
                /\ files'.changelog = files.changelog
                /\ LastRun.written =
                      (IF files.pkg # version
                       THEN <<"package.json">> ELSE <<>>)
                      \o (IF files.mod # version
                          THEN <<"module.json">> ELSE <<>>)
                      \o (IF files.docs.exists /\ files.docs.version # version
                          THEN <<"docs/module.json">> ELSE <<>>)
                /\ (/\ runs # <<>>
                    /\ runs[Len(runs)].script = "sync-versions"
                    /\ version = files.pkg)
                   => LastRun.written = <<>> /\ files' = files]_vars
    /\ [](\A argv \in Arguments :
             LET once == syncVersions(files, argv).files
                 again == syncVersions(once, argv)
             IN again.written = <<>> /\ again.files = once)

\* sync-versions has run twice with the argument 2.0.0: the first run wrote
\* the three version files, the second wrote none
C28_Witness ==
    /\ Len(runs) = 2
    /\ \A i \in 1..2 :
          /\ runs[i].script = "sync-versions"
          /\ runs[i].argv = Release(<<2>>, <<0>>, <<0>>)
    /\ runs[1].written = <<"package.json", "module.json", "docs/module.json">>
    /\ runs[2].written = <<>>
    /\ files.docs = [exists |-> TRUE, version |-> Release(<<2>>, <<0>>, <<0>>)]

=============================================================================
